---- MODULE Spec2Model ----
(***************************************************************************)
(* Modus build planner: the walk of proof trees that builds a BuildPlan    *)
(* (modus-lib/src/imagegen.rs), over the literals of modus-lib/src/logic.rs *)
(* and the lowered clauses of src/translate.rs.                            *)
(*                                                                         *)
(* The recursion of build_dag_from_proofs (process_image, process_children, *)
(* process_tree, process_intrinsic, process_operator) is unfolded into a   *)
(* machine with an explicit call stack: one action per dispatch of a proof *)
(* child and one per return of a call.  Node ids are 0-based as in the     *)
(* code, so node id n is res.nodes[n + 1].                                 *)
(***************************************************************************)
EXTENDS Integers, Sequences, FiniteSets, TLC

(* ------------------------------ bounds --------------------------------- *)
\* Number of (query, proof) pairs handed to build_dag_from_proofs.
MaxQueries == 2
\* Resolution depth allowed when deriving the proofs of a goal.
MaxProofDepth == 5
\* Size of the plans built directly through new_node and outputs.push.
MaxPlanNodes == 4
MaxOutputs == 2

(* ------------------------------ logic.rs ------------------------------- *)
MODUS_LABEL == "com.modus-continens.literal"

Constant(s) == [tag |-> "Constant", val |-> s]
UserVariable(s) == [tag |-> "UserVariable", val |-> s]
List(ts) == [tag |-> "List", elems |-> ts]

\* position 0 is None, n > 0 is Some(span n): derived equality and hashing of
\* a Literal take the position into account.
Literal(pred, args, pos) ==
    [positive |-> TRUE, position |-> pos, predicate |-> pred, args |-> args]

negated(l) == [l EXCEPT !.positive = ~l.positive]

Clause(head, body) == [head |-> head, body |-> body]

as_constant(t) == IF t.tag = "Constant" THEN t.val ELSE "<None>"

RECURSIVE is_constant_or_compound_constant(_)
is_constant_or_compound_constant(t) ==
    \/ t.tag = "Constant"
    \/ t.tag = "List" /\ \A i \in DOMAIN t.elems :
                            is_constant_or_compound_constant(t.elems[i])

RECURSIVE IRTermToString(_), display_sep(_, _)
IRTermToString(t) ==
    IF t.tag = "Constant" THEN "\"" \o t.val \o "\""
    ELSE IF t.tag = "List" THEN "[" \o display_sep(t.elems, ", ") \o "]"
    ELSE t.val

display_sep(seq, sep) ==
    IF seq = <<>> THEN ""
    ELSE IF Len(seq) = 1 THEN IRTermToString(seq[1])
    ELSE IRTermToString(seq[1]) \o sep \o display_sep(Tail(seq), sep)

LiteralToString(l) ==
    (IF l.positive THEN "" ELSE "!") \o l.predicate \o
    (IF l.args = <<>> THEN "" ELSE "(" \o display_sep(l.args, ", ") \o ")")

(* --------------------------- unification.rs ---------------------------- *)
EmptyMap == [k \in {} |-> ""]

RECURSIVE SubstituteTerm(_, _)
SubstituteTerm(t, s) ==
    IF t.tag = "Constant" THEN t
    ELSE IF t.tag = "List"
    THEN List([i \in DOMAIN t.elems |-> SubstituteTerm(t.elems[i], s)])
    ELSE IF t \in DOMAIN s THEN s[t] ELSE t

Substitute(l, s) ==
    [l EXCEPT !.args = [i \in DOMAIN l.args |-> SubstituteTerm(l.args[i], s)]]

(* ------------------------- the clause database ------------------------- *)
\* _operator_<op>_begin / _end markers as the lowering emits them: the same
\* pair-id, arguments and position on both.
OpBegin(op, id, args, pos) ==
    Literal("_operator_" \o op \o "_begin", <<Constant(id)>> \o args, pos)
OpEnd(op, id, args, pos) ==
    Literal("_operator_" \o op \o "_end", <<Constant(id)>> \o args, pos)

From(ref, pos) == Literal("from", <<Constant(ref)>>, pos)
Run(cmd, pos) == Literal("run", <<Constant(cmd)>>, pos)
Copy(src, dst, pos) == Literal("copy", <<Constant(src), Constant(dst)>>, pos)

\* The lowered clauses of the Modusfile the planner is run on.  The third
\* argument of every literal is its source position.
Rules == <<
    \* a :- from("ubuntu"), run("rm -rf /").
    Clause(Literal("a", <<>>, 1), <<From("ubuntu", 2), Run("rm -rf /", 3)>>),
    \* b :- a, run("echo hi").
    Clause(Literal("b", <<>>, 4), <<Literal("a", <<>>, 5), Run("echo hi", 6)>>),
    \* w :- from("x"), (run("ls"), copy(".", "out"))::in_workdir("/tmp").
    Clause(Literal("w", <<>>, 7),
           <<From("x", 8),
             OpBegin("in_workdir", "0", <<Constant("/tmp")>>, 9),
             Run("ls", 10), Copy(".", "out", 11),
             OpEnd("in_workdir", "0", <<Constant("/tmp")>>, 9)>>),
    \* m :- from("x"), (run("a"), run("b"), copy("./f", "/g"))::merge.
    Clause(Literal("m", <<>>, 12),
           <<From("x", 13),
             OpBegin("merge", "1", <<>>, 14),
             Run("a", 15), Run("b", 16), Copy("./f", "/g", 17),
             OpEnd("merge", "1", <<>>, 14)>>),
    \* e :- from("scratch"),
    \*      (run("c")::in_workdir("d"), run("c")::in_env("K", "w"))::in_env("K", "v"),
    \*      run("c").
    Clause(Literal("e", <<>>, 18),
           <<From("scratch", 19),
             OpBegin("in_env", "4", <<Constant("K"), Constant("v")>>, 20),
             OpBegin("in_workdir", "2", <<Constant("d")>>, 21),
             Run("c", 22),
             OpEnd("in_workdir", "2", <<Constant("d")>>, 21),
             OpBegin("in_env", "3", <<Constant("K"), Constant("w")>>, 23),
             Run("c", 24),
             OpEnd("in_env", "3", <<Constant("K"), Constant("w")>>, 23),
             OpEnd("in_env", "4", <<Constant("K"), Constant("v")>>, 20),
             Run("c", 25)>>),
    \* cp :- from("x"), a::copy("/a", "b").
    Clause(Literal("cp", <<>>, 26),
           <<From("x", 27),
             OpBegin("copy", "5", <<Constant("/a"), Constant("b")>>, 28),
             Literal("a", <<>>, 29),
             OpEnd("copy", "5", <<Constant("/a"), Constant("b")>>, 28)>>),
    \* cq :- a, a::copy("/a", "b").
    Clause(Literal("cq", <<>>, 30),
           <<Literal("a", <<>>, 31),
             OpBegin("copy", "6", <<Constant("/a"), Constant("b")>>, 32),
             Literal("a", <<>>, 33),
             OpEnd("copy", "6", <<Constant("/a"), Constant("b")>>, 32)>>),
    \* se :- ((((((a::set_env("K", "v"))::set_workdir("/w"))::set_entrypoint("sh"))
    \*       ::set_cmd(["sh", "-c"]))::append_path("/bin"))::set_label("k", "v"))
    \*       ::set_user("u").
    Clause(Literal("se", <<>>, 34),
           <<OpBegin("set_user", "13", <<Constant("u")>>, 41),
             OpBegin("set_label", "12", <<Constant("k"), Constant("v")>>, 40),
             OpBegin("append_path", "11", <<Constant("/bin")>>, 39),
             OpBegin("set_cmd", "10", <<List(<<Constant("sh"), Constant("-c")>>)>>, 38),
             OpBegin("set_entrypoint", "9", <<Constant("sh")>>, 37),
             OpBegin("set_workdir", "8", <<Constant("/w")>>, 36),
             OpBegin("set_env", "7", <<Constant("K"), Constant("v")>>, 35),
             Literal("a", <<>>, 42),
             OpEnd("set_env", "7", <<Constant("K"), Constant("v")>>, 35),
             OpEnd("set_workdir", "8", <<Constant("/w")>>, 36),
             OpEnd("set_entrypoint", "9", <<Constant("sh")>>, 37),
             OpEnd("set_cmd", "10", <<List(<<Constant("sh"), Constant("-c")>>)>>, 38),
             OpEnd("append_path", "11", <<Constant("/bin")>>, 39),
             OpEnd("set_label", "12", <<Constant("k"), Constant("v")>>, 40),
             OpEnd("set_user", "13", <<Constant("u")>>, 41)>>),
    \* v(X) :- from(X).
    Clause(Literal("v", <<UserVariable("X")>>, 43),
           <<Literal("from", <<UserVariable("X")>>, 44)>>),
    \* f1 :- from("x"), from("x").
    Clause(Literal("f1", <<>>, 45), <<From("x", 46), From("x", 47)>>),
    \* lay :- run("c").
    Clause(Literal("lay", <<>>, 48), <<Run("c", 49)>>),
    \* r :- from("x"), lay.
    Clause(Literal("r", <<>>, 50), <<From("x", 51), Literal("lay", <<>>, 52)>>),
    \* f3 :- from("x"), from("x")::merge.
    Clause(Literal("f3", <<>>, 53),
           <<From("x", 54),
             OpBegin("merge", "14", <<>>, 55),
             From("x", 56),
             OpEnd("merge", "14", <<>>, 55)>>),
    \* f4 :- from("x"), a::set_workdir("/w").
    Clause(Literal("f4", <<>>, 57),
           <<From("x", 58),
             OpBegin("set_workdir", "15", <<Constant("/w")>>, 59),
             Literal("a", <<>>, 60),
             OpEnd("set_workdir", "15", <<Constant("/w")>>, 59)>>),
    \* f5 :- from("x"), (a::set_user("u"))::merge.
    Clause(Literal("f5", <<>>, 61),
           <<From("x", 62),
             OpBegin("merge", "17", <<>>, 63),
             OpBegin("set_user", "16", <<Constant("u")>>, 64),
             Literal("a", <<>>, 65),
             OpEnd("set_user", "16", <<Constant("u")>>, 64),
             OpEnd("merge", "17", <<>>, 63)>>),
    \* l :- string_concat("a", "b", "ab").
    Clause(Literal("l", <<>>, 66),
           <<Literal("string_concat",
                     <<Constant("a"), Constant("b"), Constant("ab")>>, 67)>>),
    \* lb :- l, !absent, from("x").
    Clause(Literal("lb", <<>>, 68),
           <<Literal("l", <<>>, 69), negated(Literal("absent", <<>>, 70)),
             From("x", 71)>>),
    \* u :- from("x"), run("c")::frob.
    Clause(Literal("u", <<>>, 72),
           <<From("x", 73),
             OpBegin("frob", "18", <<>>, 74),
             Run("c", 75),
             OpEnd("frob", "18", <<>>, 74)>>),
    \* mc :- from("scratch"),
    \*       (run("c"), a::copy("/a", "/b"), (run("c"))::merge)::merge.
    Clause(Literal("mc", <<>>, 76),
           <<From("scratch", 77),
             OpBegin("merge", "21", <<>>, 78),
             Run("c", 79),
             OpBegin("copy", "19", <<Constant("/a"), Constant("/b")>>, 80),
             Literal("a", <<>>, 81),
             OpEnd("copy", "19", <<Constant("/a"), Constant("/b")>>, 80),
             OpBegin("merge", "20", <<>>, 82),
             Run("c", 83),
             OpEnd("merge", "20", <<>>, 82),
             OpEnd("merge", "21", <<>>, 78)>>),
    \* o :- from("x") ; from("scratch").
    Clause(Literal("o", <<>>, 84), <<From("x", 85)>>),
    Clause(Literal("o", <<>>, 84), <<From("scratch", 86)>>),
    \* nw :- from("x"),
    \*       (run("c"), copy("f", "g")::in_workdir("e"), run("c")::in_workdir("/abs"),
    \*        ((run("c"), run("c")::in_env("K", "w"), run("c"))::in_env("K", "v"))::merge,
    \*        run("c"))::in_workdir("d"),
    \*       run("c").
    Clause(Literal("nw", <<>>, 87),
           <<From("x", 88),
             OpBegin("in_workdir", "22", <<Constant("d")>>, 89),
             Run("c", 90),
             OpBegin("in_workdir", "23", <<Constant("e")>>, 91),
             Copy("f", "g", 92),
             OpEnd("in_workdir", "23", <<Constant("e")>>, 91),
             OpBegin("in_workdir", "24", <<Constant("/abs")>>, 93),
             Run("c", 94),
             OpEnd("in_workdir", "24", <<Constant("/abs")>>, 93),
             OpBegin("merge", "25", <<>>, 95),
             OpBegin("in_env", "26", <<Constant("K"), Constant("v")>>, 96),
             Run("c", 97),
             OpBegin("in_env", "27", <<Constant("K"), Constant("w")>>, 98),
             Run("c", 99),
             OpEnd("in_env", "27", <<Constant("K"), Constant("w")>>, 98),
             Run("c", 100),
             OpEnd("in_env", "26", <<Constant("K"), Constant("v")>>, 96),
             OpEnd("merge", "25", <<>>, 95),
             Run("c", 101),
             OpEnd("in_workdir", "22", <<Constant("d")>>, 89),
             Run("c", 102)>>),
    \* mn :- run("c")::merge.
    Clause(Literal("mn", <<>>, 103),
           <<OpBegin("merge", "28", <<>>, 104),
             Run("c", 105),
             OpEnd("merge", "28", <<>>, 104)>>),
    \* fs :- from("x"), (((from("x"))::in_workdir("d"))::in_env("K", "v"))::merge.
    Clause(Literal("fs", <<>>, 106),
           <<From("x", 107),
             OpBegin("merge", "29", <<>>, 108),
             OpBegin("in_env", "30", <<Constant("K"), Constant("v")>>, 109),
             OpBegin("in_workdir", "31", <<Constant("d")>>, 110),
             From("x", 111),
             OpEnd("in_workdir", "31", <<Constant("d")>>, 110),
             OpEnd("in_env", "30", <<Constant("K"), Constant("v")>>, 109),
             OpEnd("merge", "29", <<>>, 108)>>),
    \* iw :- ((a, run("c"), a::copy("/a", "b"))::in_env("K", "v"))::in_workdir("/d").
    Clause(Literal("iw", <<>>, 112),
           <<OpBegin("in_workdir", "34", <<Constant("/d")>>, 113),
             OpBegin("in_env", "33", <<Constant("K"), Constant("v")>>, 114),
             Literal("a", <<>>, 115),
             Run("c", 116),
             OpBegin("copy", "32", <<Constant("/a"), Constant("b")>>, 117),
             Literal("a", <<>>, 118),
             OpEnd("copy", "32", <<Constant("/a"), Constant("b")>>, 117),
             OpEnd("in_env", "33", <<Constant("K"), Constant("v")>>, 114),
             OpEnd("in_workdir", "34", <<Constant("/d")>>, 113)>>),
    \* sw :- (a::set_workdir("w"))::in_workdir("/d").
    Clause(Literal("sw", <<>>, 119),
           <<OpBegin("in_workdir", "36", <<Constant("/d")>>, 120),
             OpBegin("set_workdir", "35", <<Constant("w")>>, 121),
             Literal("a", <<>>, 122),
             OpEnd("set_workdir", "35", <<Constant("w")>>, 121),
             OpEnd("in_workdir", "36", <<Constant("/d")>>, 120)>>)
>>

(* ------------------------- proofs (sld.rs) ----------------------------- *)
QueryClause == [kind |-> "Query"]
RuleClause(rid) == [kind |-> "Rule", rid |-> rid]
BuiltinClause(lit) == [kind |-> "Builtin", lit |-> lit]
NegationCheckClause(lit) == [kind |-> "NegationCheck", lit |-> lit]

Proof(clause, valuation, children) ==
    [clause |-> clause, valuation |-> valuation, children |-> children]

\* The ground literals a builtin resolves: the string builtin and the
\* intrinsic markers, whose apply returns the literal itself.
IsBuiltin(l) ==
    \/ l.predicate \in {"string_concat", "run", "from", "copy"}
    \/ /\ Len(l.predicate) >= 10
       /\ SubSeq(l.predicate, 1, 10) = "_operator_"

\* The head of clause r unifies with the ground goal.
HeadMatches(r, goal) ==
    LET h == Rules[r].head IN
    /\ h.predicate = goal.predicate
    /\ Len(h.args) = Len(goal.args)
    /\ \A i \in DOMAIN h.args :
          h.args[i].tag = "Constant" => h.args[i] = goal.args[i]
    /\ \A i, j \in DOMAIN h.args :
          h.args[i] = h.args[j] => goal.args[i] = goal.args[j]

HeadValuation(r, goal) ==
    LET h == Rules[r].head
        vs == {h.args[i] : i \in {k \in DOMAIN h.args : h.args[k].tag # "Constant"}}
    IN [v \in vs |-> goal.args[CHOOSE i \in DOMAIN h.args : h.args[i] = v]]

RECURSIVE ProofsOfLiteral(_, _), ProofsOfGoals(_, _), ProofsOfRules(_, _, _)

\* All children lists proving the goal list, leftmost goal first.
ProofsOfGoals(goals, depth) ==
    IF goals = <<>> THEN << <<>> >>
    ELSE LET firsts == ProofsOfLiteral(Head(goals), depth)
             rests == ProofsOfGoals(Tail(goals), depth)
             RECURSIVE Product(_)
             Product(i) ==
                 IF i > Len(firsts) THEN <<>>
                 ELSE [k \in 1..Len(rests) |-> <<firsts[i]>> \o rests[k]]
                      \o Product(i + 1)
         IN Product(1)

\* The proofs of the goal through clauses r, r + 1, ... in database order.
ProofsOfRules(goal, r, depth) ==
    IF r > Len(Rules) THEN <<>>
    ELSE IF ~HeadMatches(r, goal) THEN ProofsOfRules(goal, r + 1, depth)
    ELSE LET val == HeadValuation(r, goal)
             body == [i \in DOMAIN Rules[r].body |-> Substitute(Rules[r].body[i], val)]
             bodies == ProofsOfGoals(body, depth - 1)
         IN [k \in 1..Len(bodies) |-> Proof(RuleClause(r), val, bodies[k])]
            \o ProofsOfRules(goal, r + 1, depth)

ProofsOfLiteral(goal, depth) ==
    IF depth = 0 THEN <<>>
    ELSE IF ~goal.positive
         THEN IF ProofsOfLiteral(negated(goal), depth - 1) = <<>>
              THEN <<Proof(NegationCheckClause(goal), EmptyMap, <<>>)>>
              ELSE <<>>
    ELSE IF IsBuiltin(goal) THEN <<Proof(BuiltinClause(goal), EmptyMap, <<>>)>>
    ELSE ProofsOfRules(goal, 1, depth)

\* proofs(): one proof per success, rooted at the synthetic Query node.
proofs(goals) ==
    LET bodies == ProofsOfGoals(goals, MaxProofDepth)
    IN [k \in 1..Len(bodies) |-> Proof(QueryClause, EmptyMap, bodies[k])]

(* ------------------------------ imagegen.rs ---------------------------- *)
NoNode == -1
NoMerge == [some |-> FALSE]
NoTag == [some |-> FALSE]
SomeTag(s) == [some |-> TRUE, val |-> s]

BuildPlan_new == [nodes |-> <<>>, dependencies |-> <<>>, outputs |-> <<>>]

Range(seq) == {seq[i] : i \in DOMAIN seq}

\* The orders in which a HashSet built from deps can be iterated: every
\* arrangement of the distinct elements.
Orders(s) == {o \in [1..Cardinality(s) -> s] : Range(o) = s}

\* Mutant of HashSetOrders: the vector is stored as it was passed.
HashSetOrders_vec(deps) == {deps}

\* HashSet::from_iter(deps).into_iter().collect(): the distinct elements.
HashSetOrders(deps) == Orders(Range(deps))

\* Mutant of new_node: the node is put in front of the allocated ones.
new_node_front(plan, node, stored) ==
    [plan EXCEPT !.nodes = <<node>> \o @,
                 !.dependencies = <<stored>> \o @]

\* new_node, given the order in which the dependency set was collected.
new_node(plan, node, stored) ==
    [plan EXCEPT !.nodes = Append(@, node),
                 !.dependencies = Append(@, stored)]

\* Mutant of new_node_id: the length is read after the push.
new_node_id_after(plan) == Len(plan.nodes) + 1

\* The id new_node returns.
new_node_id(plan) == Len(plan.nodes)

\* dfs of topological_order; acc carries topological_order and seen.
RECURSIVE dfs(_, _, _), dfs_deps(_, _, _, _), dfs_unmarked(_, _, _)
dfs_deps(plan, deps, k, acc) ==
    IF k > Len(deps) THEN acc
    ELSE dfs_deps(plan, deps, k + 1, dfs(plan, deps[k], acc))

\* Mutant of dfs: the node is never marked as seen.
dfs_unmarked(plan, node, acc) ==
    IF acc.seen[node + 1] THEN acc
    ELSE LET after == dfs_deps(plan, plan.dependencies[node + 1], 1, acc)
         IN [order |-> Append(after.order, node), seen |-> after.seen]

dfs(plan, node, acc) ==
    IF acc.seen[node + 1] THEN acc
    ELSE LET after == dfs_deps(plan, plan.dependencies[node + 1], 1, acc)
         IN [order |-> Append(after.order, node),
             seen |-> [after.seen EXCEPT ![node + 1] = TRUE]]

topological_order(plan) ==
    LET RECURSIVE from_outputs(_, _)
        from_outputs(k, acc) ==
            IF k > Len(plan.outputs) THEN acc
            ELSE from_outputs(k + 1, dfs(plan, plan.outputs[k].node, acc))
    IN from_outputs(1, [order |-> <<>>,
                        seen |-> [n \in 1..Len(plan.nodes) |-> FALSE]]).order

State_new ==
    [current_node |-> NoNode, cwd |-> "", current_merge |-> NoMerge,
     additional_envs |-> EmptyMap]

has_base(st) == st.current_merge.some \/ st.current_node # NoNode

set_node(st, node) == [st EXCEPT !.current_node = node]

starts_with(s, prefix) ==
    Len(s) >= Len(prefix) /\ SubSeq(s, 1, Len(prefix)) = prefix

ends_with(s, suffix) ==
    Len(s) >= Len(suffix) /\ SubSeq(s, Len(s) - Len(suffix) + 1, Len(s)) = suffix

join_path(base, path) ==
    IF starts_with(path, "/") THEN path
    ELSE IF base = "" THEN path
    ELSE IF ends_with(base, "/") THEN base \o path
    ELSE base \o "/" \o path

\* name.strip_prefix("_operator_").and_then(|s| s.strip_suffix("_begin"))
IsOperatorBegin(name) ==
    /\ starts_with(name, "_operator_")
    /\ ends_with(SubSeq(name, 11, Len(name)), "_begin")

OpName(name) == SubSeq(name, 11, Len(name) - 6)

SetOperators ==
    {"set_workdir", "set_entrypoint", "set_cmd", "set_env", "append_path",
     "set_label", "set_user"}

KnownOperators == SetOperators \cup {"copy", "in_workdir", "merge", "in_env"}

\* The index of the end marker paired with the begin marker children[i], or 0
\* when the scan runs off the end of the list.
RECURSIVE ScanEnd(_, _, _, _)
\* Mutant of ScanEnd: the first end marker of the operator ends the region.
ScanEnd_any_id(children, j, end_name, pair_id) ==
    IF j > Len(children) THEN 0
    ELSE IF /\ children[j].clause.kind = "Builtin"
            /\ children[j].clause.lit.predicate = end_name
         THEN j
    ELSE ScanEnd(children, j + 1, end_name, pair_id)

ScanEnd(children, j, end_name, pair_id) ==
    IF j > Len(children) THEN 0
    ELSE IF /\ children[j].clause.kind = "Builtin"
            /\ children[j].clause.lit.predicate = end_name
            /\ children[j].clause.lit.args # <<>>
            /\ children[j].clause.lit.args[1].tag = "Constant"
            /\ children[j].clause.lit.args[1].val = pair_id
         THEN j
    ELSE ScanEnd(children, j + 1, end_name, pair_id)

EndIndex(children, i) ==
    LET lit == children[i].clause.lit
    IN ScanEnd(children, i + 1,
               "_operator_" \o OpName(lit.predicate) \o "_end",
               as_constant(lit.args[1]))

Frame(children, ret, lit, tag) ==
    [children |-> children, i |-> 1, ret |-> ret, lit |-> lit, tag |-> tag,
     old_cwd |-> "", old_envs |-> EmptyMap]

NoLit == Literal("", <<>>, 0)

ImageRets == {"query", "rule", "copy", "set"}

(* -------------------------------- state -------------------------------- *)
VARIABLES
    query_and_proofs,  \* the pairs given to build_dag_from_proofs
    next_query,        \* position of the for loop over query_and_proofs
    res,               \* the BuildPlan under construction
    image_literals,    \* HashMap<Literal, NodeId>
    stack,             \* active process_image / process_children calls
    states,            \* the State of every active process_image call
    status,            \* "running", "done" (plan returned) or "panicked"
    runs,              \* number of the current run over the same input
    first_plan,        \* the plan returned by the first run
    call,              \* a call of a function of builtin.rs, unification.rs
                       \* or translate.rs: its name and arguments
    ret,               \* the value the call returned
    AVAILABLE_VARIABLE_INDEX,  \* logic.rs: the AtomicU32 behind rename and aux
    OPERATOR_PAIR_ID,  \* translate.rs: the AtomicUsize behind the pair-ids
    handed,            \* the values the two counters handed out since their
                       \* last reset, in the order of the atomic operations
    fetches            \* the number of fetch_add calls made by the threads

atomic_vars == <<AVAILABLE_VARIABLE_INDEX, OPERATOR_PAIR_ID, handed, fetches>>

vars == <<query_and_proofs, next_query, res, image_literals, stack, states,
          status, runs, first_plan, call, ret, AVAILABLE_VARIABLE_INDEX,
          OPERATOR_PAIR_ID, handed, fetches>>

NoCall == [fn |-> "none"]
NoRet == [returned |-> FALSE]

\* Bounds on the threads that call into the library at the same time and on
\* the fetch_add calls they make together.
MaxThreads == 2
MaxFetches == 3

Threads == 1..MaxThreads

\* AtomicU32::new(0), AtomicUsize::new(0)
AtomicsInit ==
    /\ AVAILABLE_VARIABLE_INDEX = 0
    /\ OPERATOR_PAIR_ID = 0
    /\ handed = <<>>
    /\ fetches = 0

QueryPosition == 1

Query(pred, args) == Literal(pred, args, QueryPosition)

Goals ==
    {Query(p, <<>>) :
        p \in {"a", "b", "w", "m", "e", "cp", "cq", "se", "f1", "lay", "r", "f3",
               "f4", "f5", "l", "lb", "u", "mc", "o", "nw", "mn", "fs", "iw", "sw"}}
    \cup {Query("v", <<Constant("x")>>)}

Pairs == UNION {{[query |-> g, proof |-> p] : p \in Range(proofs(<<g>>))} : g \in Goals}

Batches == UNION {[1..n -> Pairs] : n \in 1..MaxQueries}

Init ==
    /\ query_and_proofs \in Batches
    /\ next_query = 1
    /\ res = BuildPlan_new
    /\ image_literals = EmptyMap
    /\ stack = <<>>
    /\ states = <<>>
    /\ status = "running"
    /\ runs = 1
    /\ first_plan = BuildPlan_new
    /\ call = NoCall
    /\ ret = NoRet
    /\ AtomicsInit

top == stack[Len(stack)]
curr_state == states[Len(states)]
child == top.children[top.i]

Running == status = "running" /\ stack # <<>>
AtChild == Running /\ top.i <= Len(top.children)
AtEnd == Running /\ top.i > Len(top.children)

IsIntrinsicChild ==
    /\ AtChild
    /\ child.clause.kind = "Builtin"
    /\ ~IsOperatorBegin(child.clause.lit.predicate)

IsOperatorChild(ops) ==
    /\ AtChild
    /\ child.clause.kind = "Builtin"
    /\ IsOperatorBegin(child.clause.lit.predicate)
    /\ OpName(child.clause.lit.predicate) \in ops

\* The caller's loop continues after child i (i += 1) or after the end marker.
Advanced(to) == [stack EXCEPT ![Len(stack)].i = to]
WithState(st) == [states EXCEPT ![Len(states)] = st]

Panic ==
    /\ status' = "panicked"
    /\ UNCHANGED <<query_and_proofs, next_query, res, image_literals, stack,
                   states, runs, first_plan, call, ret, atomic_vars>>

(* ----------------------- build_dag_from_proofs loop -------------------- *)
QueryCached ==
    /\ status = "running" /\ stack = <<>>
    /\ next_query <= Len(query_and_proofs)
    /\ LET query == query_and_proofs[next_query].query IN
       /\ query \in DOMAIN image_literals
       /\ res' = [res EXCEPT !.outputs =
                     Append(@, [node |-> image_literals[query],
                                source_literal |-> query])]
    /\ next_query' = next_query + 1
    /\ UNCHANGED <<query_and_proofs, image_literals, stack, states, status,
                   runs, first_plan, call, ret, atomic_vars>>

QueryStart ==
    /\ status = "running" /\ stack = <<>>
    /\ next_query <= Len(query_and_proofs)
    /\ LET query == query_and_proofs[next_query].query
           proof == query_and_proofs[next_query].proof IN
       /\ query \notin DOMAIN image_literals
       /\ stack' = <<Frame(<<proof>>, "query", query,
                          SomeTag(LiteralToString(query)))>>
       /\ states' = <<State_new>>
    /\ UNCHANGED <<query_and_proofs, next_query, res, image_literals, status,
                   runs, first_plan, call, ret, atomic_vars>>

Finish ==
    /\ status = "running" /\ stack = <<>>
    /\ next_query > Len(query_and_proofs)
    /\ status' = "done"
    /\ UNCHANGED <<query_and_proofs, next_query, res, image_literals, stack,
                   states, runs, first_plan, call, ret, atomic_vars>>

(* ------------------------------ process_tree --------------------------- *)
\* Query, NegationCheck and a Rule reached with a base: walk the children.
TreeDescend ==
    /\ AtChild
    /\ \/ child.clause.kind \in {"Query", "NegationCheck"}
       \/ child.clause.kind = "Rule" /\ has_base(curr_state)
    /\ stack' = Append(Advanced(top.i + 1),
                       Frame(child.children, "tree", NoLit, NoTag))
    /\ UNCHANGED <<query_and_proofs, next_query, res, image_literals, states,
                   status, runs, first_plan, call, ret, atomic_vars>>

substituted_lit == Substitute(Rules[child.clause.rid].head, child.valuation)

\* Mutant of RuleHit: the cached literal is built again.
RuleHit_rebuild ==
    /\ AtChild
    /\ child.clause.kind = "Rule" /\ ~has_base(curr_state)
    /\ substituted_lit \in DOMAIN image_literals
    /\ stack' = Append(Advanced(top.i + 1),
                       Frame(child.children, "rule", substituted_lit,
                             SomeTag(LiteralToString(substituted_lit))))
    /\ states' = Append(states, State_new)
    /\ UNCHANGED <<query_and_proofs, next_query, res, image_literals, status,
                   runs, first_plan, call, ret, atomic_vars>>

RuleHit ==
    /\ AtChild
    /\ child.clause.kind = "Rule" /\ ~has_base(curr_state)
    /\ substituted_lit \in DOMAIN image_literals
    /\ states' = WithState(set_node(curr_state, image_literals[substituted_lit]))
    /\ stack' = Advanced(top.i + 1)
    /\ UNCHANGED <<query_and_proofs, next_query, res, image_literals, status,
                   runs, first_plan, call, ret, atomic_vars>>

RuleMiss ==
    /\ AtChild
    /\ child.clause.kind = "Rule" /\ ~has_base(curr_state)
    /\ substituted_lit \notin DOMAIN image_literals
    /\ stack' = Append(Advanced(top.i + 1),
                       Frame(child.children, "rule", substituted_lit,
                             SomeTag(LiteralToString(substituted_lit))))
    /\ states' = Append(states, State_new)
    /\ UNCHANGED <<query_and_proofs, next_query, res, image_literals, status,
                   runs, first_plan, call, ret, atomic_vars>>

(* ---------------------------- process_intrinsic ------------------------ *)
intrinsic == child.clause.lit

FromNode(image_ref) ==
    IF image_ref = "scratch"
    THEN [kind |-> "FromScratch", scratch_ref |-> "<None>"]
    ELSE [kind |-> "From", image_ref |-> image_ref, display_name |-> image_ref]

\* Mutant of IntrinsicFrom: no check of the merge and of the base.
IntrinsicFrom_unchecked ==
    /\ IsIntrinsicChild /\ intrinsic.predicate = "from"
    /\ IF intrinsic \in DOMAIN image_literals
       THEN /\ states' = WithState(set_node(curr_state, image_literals[intrinsic]))
            /\ UNCHANGED <<res, image_literals>>
       ELSE /\ res' = new_node(res, FromNode(as_constant(intrinsic.args[1])), <<>>)
            /\ states' = WithState(set_node(curr_state, new_node_id(res)))
            /\ image_literals' = (intrinsic :> new_node_id(res)) @@ image_literals
    /\ stack' = Advanced(top.i + 1)
    /\ UNCHANGED <<query_and_proofs, next_query, status, runs, first_plan, call, ret, atomic_vars>>

IntrinsicFrom ==
    /\ IsIntrinsicChild /\ intrinsic.predicate = "from"
    /\ IF curr_state.current_merge.some \/ has_base(curr_state) THEN Panic
       ELSE /\ IF intrinsic \in DOMAIN image_literals
               THEN /\ states' = WithState(set_node(curr_state, image_literals[intrinsic]))
                    /\ UNCHANGED <<res, image_literals>>
               ELSE /\ res' = new_node(res, FromNode(as_constant(intrinsic.args[1])), <<>>)
                    /\ states' = WithState(set_node(curr_state, new_node_id(res)))
                    /\ image_literals' = (intrinsic :> new_node_id(res)) @@ image_literals
            /\ stack' = Advanced(top.i + 1)
            /\ UNCHANGED <<query_and_proofs, next_query, status, runs, first_plan, call, ret, atomic_vars>>

\* Mutant of RunNode: the working directory of the state is dropped.
RunNode_no_cwd(parent, command, st) ==
    [kind |-> "Run", parent |-> parent, command |-> command, cwd |-> "",
     additional_envs |-> st.additional_envs]

RunNode(parent, command, st) ==
    [kind |-> "Run", parent |-> parent, command |-> command, cwd |-> st.cwd,
     additional_envs |-> st.additional_envs]

RunOperation(command, st) ==
    [kind |-> "Run", command |-> command, cwd |-> st.cwd,
     additional_envs |-> st.additional_envs]

\* Mutant of PushOperation: the operation is put in front of the list.
PushOperation_front(st, op) ==
    [st EXCEPT !.current_merge.operations = <<op>> \o @]

PushOperation(st, op) ==
    [st EXCEPT !.current_merge.operations = Append(@, op)]

IntrinsicRun ==
    /\ IsIntrinsicChild /\ intrinsic.predicate = "run"
    /\ LET command == as_constant(intrinsic.args[1]) IN
       IF curr_state.current_merge.some
       THEN /\ states' = WithState(PushOperation(curr_state, RunOperation(command, curr_state)))
            /\ stack' = Advanced(top.i + 1)
            /\ UNCHANGED <<query_and_proofs, next_query, res, image_literals,
                           status, runs, first_plan, call, ret, atomic_vars>>
       ELSE IF ~has_base(curr_state) THEN Panic
       ELSE LET parent == curr_state.current_node IN
            /\ res' = new_node(res, RunNode(parent, command, curr_state), <<parent>>)
            /\ states' = WithState(set_node(curr_state, new_node_id(res)))
            /\ stack' = Advanced(top.i + 1)
            /\ UNCHANGED <<query_and_proofs, next_query, image_literals,
                           status, runs, first_plan, call, ret, atomic_vars>>

IntrinsicCopy ==
    /\ IsIntrinsicChild /\ intrinsic.predicate = "copy"
    /\ LET src_path == as_constant(intrinsic.args[1])
           dst_path == join_path(curr_state.cwd, as_constant(intrinsic.args[2]))
       IN
       IF starts_with(src_path, "/") THEN Panic
       ELSE IF curr_state.current_merge.some
       THEN /\ states' = WithState(PushOperation(curr_state,
                            [kind |-> "CopyFromLocal", src_path |-> src_path,
                             dst_path |-> dst_path]))
            /\ stack' = Advanced(top.i + 1)
            /\ UNCHANGED <<query_and_proofs, next_query, res, image_literals,
                           status, runs, first_plan, call, ret, atomic_vars>>
       ELSE IF ~has_base(curr_state) THEN Panic
       ELSE LET parent == curr_state.current_node IN
            /\ res' = new_node(res, [kind |-> "CopyFromLocal", parent |-> parent,
                                     src_path |-> src_path, dst_path |-> dst_path],
                               <<parent>>)
            /\ states' = WithState(set_node(curr_state, new_node_id(res)))
            /\ stack' = Advanced(top.i + 1)
            /\ UNCHANGED <<query_and_proofs, next_query, image_literals,
                           status, runs, first_plan, call, ret, atomic_vars>>

\* Any other builtin (string_concat, ...) does nothing; an operator marker
\* that reaches process_intrinsic fails its assertion.
IntrinsicOther ==
    /\ IsIntrinsicChild /\ intrinsic.predicate \notin {"from", "run", "copy"}
    /\ IF starts_with(intrinsic.predicate, "_operator_") THEN Panic
       ELSE /\ stack' = Advanced(top.i + 1)
            /\ UNCHANGED <<query_and_proofs, next_query, res, image_literals,
                           states, status, runs, first_plan, call, ret, atomic_vars>>

(* ---------------------------- process_operator ------------------------- *)
\* process_children hands the children strictly between the begin marker at
\* top.i and its end marker at j to process_operator, and resumes at j + 1.
begin_lit == child.clause.lit
end_index == EndIndex(top.children, top.i)
subtree_in_op == SubSeq(top.children, top.i + 1, end_index - 1)
op_name == OpName(begin_lit.predicate)

OperatorCopy ==
    /\ IsOperatorChild({"copy"})
    /\ IF end_index = 0 THEN Panic
       ELSE /\ stack' = Append(Advanced(end_index + 1),
                               Frame(subtree_in_op, "copy", begin_lit, NoTag))
            /\ states' = Append(states, State_new)
            /\ UNCHANGED <<query_and_proofs, next_query, res, image_literals,
                           status, runs, first_plan, call, ret, atomic_vars>>

OperatorInWorkdir ==
    /\ IsOperatorChild({"in_workdir"})
    /\ IF end_index = 0 THEN Panic
       ELSE LET new_cwd == join_path(curr_state.cwd, as_constant(begin_lit.args[2])) IN
            /\ stack' = Append(Advanced(end_index + 1),
                               [Frame(subtree_in_op, "in_workdir", begin_lit, NoTag)
                                   EXCEPT !.old_cwd = curr_state.cwd])
            /\ states' = WithState([curr_state EXCEPT !.cwd = new_cwd])
            /\ UNCHANGED <<query_and_proofs, next_query, res, image_literals,
                           status, runs, first_plan, call, ret, atomic_vars>>

OperatorSet ==
    /\ IsOperatorChild(SetOperators)
    /\ IF end_index = 0 \/ curr_state.current_merge.some THEN Panic
       ELSE /\ stack' = Append(Advanced(end_index + 1),
                               Frame(subtree_in_op, "set", begin_lit, NoTag))
            /\ states' = Append(states, State_new)
            /\ UNCHANGED <<query_and_proofs, next_query, res, image_literals,
                           status, runs, first_plan, call, ret, atomic_vars>>

OperatorMerge ==
    /\ IsOperatorChild({"merge"})
    /\ IF end_index = 0 THEN Panic
       ELSE IF curr_state.current_merge.some
       THEN /\ stack' = Append(Advanced(end_index + 1),
                               Frame(subtree_in_op, "tree", NoLit, NoTag))
            /\ UNCHANGED <<query_and_proofs, next_query, res, image_literals,
                           states, status, runs, first_plan, call, ret, atomic_vars>>
       ELSE IF ~has_base(curr_state) THEN Panic
       ELSE /\ stack' = Append(Advanced(end_index + 1),
                               Frame(subtree_in_op, "merge", begin_lit, NoTag))
            /\ states' = WithState([curr_state EXCEPT !.current_merge =
                              [some |-> TRUE, parent |-> curr_state.current_node,
                               operations |-> <<>>]])
            /\ UNCHANGED <<query_and_proofs, next_query, res, image_literals,
                           status, runs, first_plan, call, ret, atomic_vars>>

\* Mutant of extend: an outer pair on the same key is kept.
extend_outer(envs, k, v) == envs @@ (k :> v)

\* additional_envs.extend(envs): the new pair shadows an outer one.
extend(envs, k, v) == (k :> v) @@ envs

OperatorInEnv ==
    /\ IsOperatorChild({"in_env"})
    /\ IF end_index = 0 THEN Panic
       ELSE LET env_k == as_constant(begin_lit.args[2])
                env_v == as_constant(begin_lit.args[3]) IN
            /\ stack' = Append(Advanced(end_index + 1),
                               [Frame(subtree_in_op, "in_env", begin_lit, NoTag)
                                   EXCEPT !.old_envs = curr_state.additional_envs])
            /\ states' = WithState([curr_state EXCEPT !.additional_envs =
                                        extend(@, env_k, env_v)])
            /\ UNCHANGED <<query_and_proofs, next_query, res, image_literals,
                           status, runs, first_plan, call, ret, atomic_vars>>

OperatorUnknown ==
    /\ AtChild
    /\ child.clause.kind = "Builtin"
    /\ IsOperatorBegin(child.clause.lit.predicate)
    /\ op_name \notin KnownOperators
    /\ Panic

(* ------------------------ returns of process_children ------------------ *)
Popped == SubSeq(stack, 1, Len(stack) - 1)

ReturnTree ==
    /\ AtEnd /\ top.ret = "tree"
    /\ stack' = Popped
    /\ UNCHANGED <<query_and_proofs, next_query, res, image_literals, states,
                   status, runs, first_plan, call, ret, atomic_vars>>

\* Mutant of ReturnInWorkdir: the cwd of the region is kept.
ReturnInWorkdir_kept ==
    /\ AtEnd /\ top.ret = "in_workdir"
    /\ stack' = Popped
    /\ UNCHANGED <<query_and_proofs, next_query, res, image_literals, states,
                   status, runs, first_plan, call, ret, atomic_vars>>

\* with_new_cwd after f(self)
ReturnInWorkdir ==
    /\ AtEnd /\ top.ret = "in_workdir"
    /\ states' = WithState([curr_state EXCEPT !.cwd = top.old_cwd])
    /\ stack' = Popped
    /\ UNCHANGED <<query_and_proofs, next_query, res, image_literals, status,
                   runs, first_plan, call, ret, atomic_vars>>

\* with_additional_envs after f(self)
ReturnInEnv ==
    /\ AtEnd /\ top.ret = "in_env"
    /\ states' = WithState([curr_state EXCEPT !.additional_envs = top.old_envs])
    /\ stack' = Popped
    /\ UNCHANGED <<query_and_proofs, next_query, res, image_literals, status,
                   runs, first_plan, call, ret, atomic_vars>>

\* merge_node.operations.iter().filter_map(src_image of CopyFromImage)
RECURSIVE MergeSources(_)
MergeSources(ops) ==
    IF ops = <<>> THEN <<>>
    ELSE (IF Head(ops).kind = "CopyFromImage" THEN <<Head(ops).src_image>> ELSE <<>>)
         \o MergeSources(Tail(ops))

\* with_new_merge after f(self), then the Merge node.
ReturnMerge ==
    /\ AtEnd /\ top.ret = "merge"
    /\ LET merge_node == curr_state.current_merge
           deps == Append(MergeSources(merge_node.operations), merge_node.parent)
       IN \E stored \in HashSetOrders(deps) :
            /\ res' = new_node(res, [kind |-> "Merge", parent |-> merge_node.parent,
                                     operations |-> merge_node.operations], stored)
            /\ states' = WithState(set_node([curr_state EXCEPT !.current_merge = NoMerge],
                                            new_node_id(res)))
    /\ stack' = Popped
    /\ UNCHANGED <<query_and_proofs, next_query, image_literals, status, runs,
                   first_plan, call, ret, atomic_vars>>

(* -------------------------- returns of process_image ------------------- *)
Tagged == curr_state.current_node # NoNode /\ top.tag.some

\* The plan after the tail of process_image ...
TaggedPlan ==
    IF Tagged
    THEN new_node(res, [kind |-> "SetLabel", parent |-> curr_state.current_node,
                        label |-> MODUS_LABEL, value |-> top.tag.val],
                  <<curr_state.current_node>>)
    ELSE res

\* Mutant of ImageResult: the node below the label is returned.
ImageResult_untagged == curr_state.current_node

\* ... and the Option<NodeId> it returns.
ImageResult == IF Tagged THEN new_node_id(res) ELSE curr_state.current_node

caller_state == states[Len(states) - 1]
\* Mutant of PoppedStates: the cwd, overlay and merge of the state that
\* process_image worked on are left in the caller's state.
PoppedStates_inherited(st) ==
    [SubSeq(states, 1, Len(states) - 1) EXCEPT ![Len(states) - 1] =
        [st EXCEPT !.cwd = curr_state.cwd,
                   !.additional_envs = curr_state.additional_envs,
                   !.current_merge = curr_state.current_merge]]

\* The state of process_image is dropped; the caller goes on with st.
PoppedStates(st) == [SubSeq(states, 1, Len(states) - 1) EXCEPT ![Len(states) - 1] = st]

ReturnImageQuery ==
    /\ AtEnd /\ top.ret = "query"
    /\ IF ImageResult = NoNode THEN Panic
       ELSE /\ res' = [TaggedPlan EXCEPT !.outputs =
                          Append(@, [node |-> ImageResult, source_literal |-> top.lit])]
            /\ image_literals' = (top.lit :> ImageResult) @@ image_literals
            /\ next_query' = next_query + 1
            /\ stack' = <<>>
            /\ states' = <<>>
            /\ UNCHANGED <<query_and_proofs, status, runs, first_plan, call, ret, atomic_vars>>

ReturnImageRule ==
    /\ AtEnd /\ top.ret = "rule"
    /\ res' = TaggedPlan
    /\ stack' = Popped
    /\ IF ImageResult = NoNode
       THEN /\ states' = SubSeq(states, 1, Len(states) - 1)
            /\ UNCHANGED image_literals
       ELSE /\ states' = PoppedStates(set_node(caller_state, ImageResult))
            /\ image_literals' = (top.lit :> ImageResult) @@ image_literals
    /\ UNCHANGED <<query_and_proofs, next_query, status, runs, first_plan, call, ret, atomic_vars>>

ReturnImageCopy ==
    /\ AtEnd /\ top.ret = "copy"
    /\ LET src_image == ImageResult
           src_path == as_constant(top.lit.args[2])
           dst_path == join_path(caller_state.cwd, as_constant(top.lit.args[3]))
       IN
       IF src_image = NoNode THEN Panic
       ELSE IF caller_state.current_merge.some
       THEN /\ res' = TaggedPlan
            /\ states' = PoppedStates(PushOperation(caller_state,
                             [kind |-> "CopyFromImage", src_image |-> src_image,
                              src_path |-> src_path, dst_path |-> dst_path]))
            /\ stack' = Popped
            /\ UNCHANGED <<query_and_proofs, next_query, image_literals, status,
                           runs, first_plan, call, ret, atomic_vars>>
       ELSE IF caller_state.current_node = NoNode THEN Panic
       ELSE LET parent == caller_state.current_node IN
            \E stored \in HashSetOrders(<<parent, src_image>>) :
              /\ res' = new_node(TaggedPlan,
                                 [kind |-> "CopyFromImage", parent |-> parent,
                                  src_image |-> src_image, src_path |-> src_path,
                                  dst_path |-> dst_path], stored)
              /\ states' = PoppedStates(set_node(caller_state, new_node_id(TaggedPlan)))
              /\ stack' = Popped
              /\ UNCHANGED <<query_and_proofs, next_query, image_literals, status,
                             runs, first_plan, call, ret, atomic_vars>>

\* A Constant is wrapped into a one-element vector, a List gives its elements.
StringList(t) ==
    IF t.tag = "Constant" THEN <<t.val>>
    ELSE [k \in DOMAIN t.elems |-> as_constant(t.elems[k])]

SetNode(op, lit, img, cwd) ==
    CASE op = "set_workdir" ->
           [kind |-> "SetWorkdir", parent |-> img,
            new_workdir |-> join_path(cwd, as_constant(lit.args[2]))]
      [] op = "set_entrypoint" ->
           [kind |-> "SetEntrypoint", parent |-> img,
            new_entrypoint |-> StringList(lit.args[2])]
      [] op = "set_cmd" ->
           [kind |-> "SetCmd", parent |-> img, new_cmd |-> StringList(lit.args[2])]
      [] op = "set_env" ->
           [kind |-> "SetEnv", parent |-> img, key |-> as_constant(lit.args[2]),
            value |-> as_constant(lit.args[3])]
      [] op = "append_path" ->
           [kind |-> "AppendEnvValue", parent |-> img, key |-> "PATH",
            value |-> ":" \o as_constant(lit.args[2])]
      [] op = "set_label" ->
           [kind |-> "SetLabel", parent |-> img, label |-> as_constant(lit.args[2]),
            value |-> as_constant(lit.args[3])]
      [] op = "set_user" ->
           [kind |-> "SetUser", parent |-> img, user |-> as_constant(lit.args[2])]

ReturnImageSet ==
    /\ AtEnd /\ top.ret = "set"
    /\ LET img == ImageResult IN
       IF img = NoNode \/ has_base(caller_state) THEN Panic
       ELSE /\ res' = new_node(TaggedPlan,
                               SetNode(OpName(top.lit.predicate), top.lit, img,
                                       caller_state.cwd),
                               <<img>>)
            /\ states' = PoppedStates(set_node(caller_state, new_node_id(TaggedPlan)))
            /\ stack' = Popped
            /\ UNCHANGED <<query_and_proofs, next_query, image_literals, status,
                           runs, first_plan, call, ret, atomic_vars>>

(* ------------------------------ a second run --------------------------- *)
\* The same pairs are planned again by a fresh build_dag_from_proofs call.
Rerun ==
    /\ status = "done" /\ runs = 1
    /\ first_plan' = res
    /\ runs' = 2
    /\ next_query' = 1
    /\ res' = BuildPlan_new
    /\ image_literals' = EmptyMap
    /\ status' = "running"
    /\ UNCHANGED <<query_and_proofs, stack, states, call, ret, atomic_vars>>

Next ==
    \/ QueryCached \/ QueryStart \/ Finish
    \/ TreeDescend \/ RuleHit \/ RuleMiss
    \/ IntrinsicFrom \/ IntrinsicRun \/ IntrinsicCopy \/ IntrinsicOther
    \/ OperatorCopy \/ OperatorInWorkdir \/ OperatorSet \/ OperatorMerge
    \/ OperatorInEnv \/ OperatorUnknown
    \/ ReturnTree \/ ReturnInWorkdir \/ ReturnInEnv \/ ReturnMerge
    \/ ReturnImageQuery \/ ReturnImageRule \/ ReturnImageCopy \/ ReturnImageSet
    \/ Rerun

Spec == Init /\ [][Next]_vars

(* ----------------- plans built through the BuildPlan API --------------- *)
\* A client of BuildPlan allocates nodes with new_node, each depending on
\* nodes allocated before it, and pushes outputs, as buildkit.rs does.
PlanInit ==
    /\ query_and_proofs = <<>>
    /\ next_query = 1
    /\ res = BuildPlan_new
    /\ image_literals = EmptyMap
    /\ stack = <<>>
    /\ states = <<>>
    /\ status = "plan"
    /\ runs = 1
    /\ first_plan = BuildPlan_new
    /\ call = NoCall
    /\ ret = NoRet
    /\ AtomicsInit

NodeIds(plan) == 0..(Len(plan.nodes) - 1)

PlanNode(stored) ==
    IF stored = <<>> THEN FromNode("x")
    ELSE [kind |-> "Merge", parent |-> stored[1],
          operations |-> [k \in 1..(Len(stored) - 1) |->
                             [kind |-> "CopyFromImage", src_image |-> stored[k + 1],
                              src_path |-> "/a", dst_path |-> "/b"]]]

PlanNewNode ==
    /\ status = "plan"
    /\ Len(res.nodes) < MaxPlanNodes
    /\ \E deps \in SUBSET NodeIds(res) : \E stored \in Orders(deps) :
          res' = new_node(res, PlanNode(stored), stored)
    /\ UNCHANGED <<query_and_proofs, next_query, image_literals, stack, states,
                   status, runs, first_plan, call, ret, atomic_vars>>

PlanPushOutput ==
    /\ status = "plan"
    /\ Len(res.outputs) < MaxOutputs
    /\ \E n \in NodeIds(res) :
          res' = [res EXCEPT !.outputs = Append(@, [node |-> n, source_literal |-> NoLit])]
    /\ UNCHANGED <<query_and_proofs, next_query, image_literals, stack, states,
                   status, runs, first_plan, call, ret, atomic_vars>>

PlanNext == PlanNewNode \/ PlanPushOutput

PlanSpec == PlanInit /\ [][PlanNext]_vars

(* ------------------------------- builtin.rs ---------------------------- *)
\* Bound on the number of arguments of the literals given to select_builtin.
MaxArgs == 3

\* The calls and their callers do not touch the planner.
planner_vars == <<query_and_proofs, next_query, res, image_literals, stack,
                  states, status, runs, first_plan>>

Idle ==
    /\ query_and_proofs = <<>>
    /\ next_query = 1
    /\ res = BuildPlan_new
    /\ image_literals = EmptyMap
    /\ stack = <<>>
    /\ states = <<>>
    /\ status = "call"
    /\ runs = 1
    /\ first_plan = BuildPlan_new
    /\ AtomicsInit

BuiltinPredicate(name, arg_groundness) ==
    [name |-> name, arg_groundness |-> arg_groundness]

\* The builtins handed to select_builtins!, in that order.  arg_groundness:
\* TRUE allows an ungrounded argument, FALSE forces a constant.
Builtins == <<
    BuiltinPredicate("string_concat", <<FALSE, FALSE, TRUE>>),
    BuiltinPredicate("string_concat", <<TRUE, FALSE, FALSE>>),
    BuiltinPredicate("string_concat", <<FALSE, TRUE, FALSE>>),
    BuiltinPredicate("run", <<FALSE>>),
    BuiltinPredicate("from", <<FALSE>>),
    BuiltinPredicate("_operator_copy_begin", <<FALSE, FALSE, FALSE>>),
    BuiltinPredicate("_operator_copy_end", <<FALSE, FALSE, FALSE>>),
    BuiltinPredicate("_operator_in_workdir_begin", <<FALSE, FALSE>>),
    BuiltinPredicate("_operator_in_workdir_end", <<FALSE, FALSE>>),
    BuiltinPredicate("_operator_set_workdir_begin", <<FALSE, FALSE>>),
    BuiltinPredicate("_operator_set_workdir_end", <<FALSE, FALSE>>),
    BuiltinPredicate("_operator_set_entrypoint_begin", <<FALSE, FALSE>>),
    BuiltinPredicate("_operator_set_entrypoint_end", <<FALSE, FALSE>>),
    BuiltinPredicate("_operator_set_env_begin", <<FALSE, FALSE, FALSE>>),
    BuiltinPredicate("_operator_set_env_end", <<FALSE, FALSE, FALSE>>),
    BuiltinPredicate("_operator_in_env_begin", <<FALSE, FALSE, FALSE>>),
    BuiltinPredicate("_operator_in_env_end", <<FALSE, FALSE, FALSE>>),
    BuiltinPredicate("_operator_append_path_begin", <<FALSE, FALSE>>),
    BuiltinPredicate("_operator_append_path_end", <<FALSE, FALSE>>),
    BuiltinPredicate("copy", <<FALSE, FALSE>>),
    BuiltinPredicate("string_eq", <<FALSE, TRUE>>),
    BuiltinPredicate("string_eq", <<TRUE, FALSE>>),
    BuiltinPredicate("_operator_merge_begin", <<FALSE>>),
    BuiltinPredicate("_operator_merge_end", <<FALSE>>),
    BuiltinPredicate("number_gt", <<FALSE, FALSE>>),
    BuiltinPredicate("number_geq", <<FALSE, FALSE>>)
>>

\* args.iter().zip(arg_groundness): the pairs up to the shorter length.
zip(args, groundness) ==
    [i \in 1..(IF Len(args) < Len(groundness) THEN Len(args) ELSE Len(groundness))
        |-> <<args[i], groundness[i]>>]

\* BuiltinPredicate::select
select(b, lit) ==
    IF lit.predicate # b.name THEN "NoMatch"
    ELSE IF \A i \in DOMAIN zip(lit.args, b.arg_groundness) :
               LET pair == zip(lit.args, b.arg_groundness)[i]
               IN pair[2] \/ pair[1].tag = "Constant"
         THEN "Match"
    ELSE "GroundnessMismatch"

NoBuiltin == 0

RECURSIVE select_builtins(_, _, _), select_builtins_eager(_, _, _)
\* Mutant of select_builtins: the first builtin of that name decides.
select_builtins_eager(lit, k, has_ground_mismatch) ==
    IF k > Len(Builtins)
    THEN [result |-> "NoMatch", builtin |-> NoBuiltin]
    ELSE IF select(Builtins[k], lit) = "Match"
         THEN [result |-> "Match", builtin |-> k]
    ELSE IF select(Builtins[k], lit) = "GroundnessMismatch"
         THEN [result |-> "GroundnessMismatch", builtin |-> NoBuiltin]
    ELSE select_builtins(lit, k + 1, has_ground_mismatch)

\* select_builtins! from the k-th builtin on.
select_builtins(lit, k, has_ground_mismatch) ==
    IF k > Len(Builtins)
    THEN [result |-> (IF has_ground_mismatch THEN "GroundnessMismatch" ELSE "NoMatch"),
          builtin |-> NoBuiltin]
    ELSE IF select(Builtins[k], lit) = "Match"
         THEN [result |-> "Match", builtin |-> k]
    ELSE select_builtins(lit, k + 1,
                         has_ground_mismatch
                            \/ select(Builtins[k], lit) = "GroundnessMismatch")

select_builtin(lit) == select_builtins(lit, 1, FALSE)

Tuples(set, n) == UNION {[1..k -> set] : k \in 0..n}

SelectTerms == {Constant("a"), UserVariable("X"), List(<<Constant("a")>>)}

SelectPredicates ==
    {"string_concat", "run", "from", "copy", "string_eq", "number_gt",
     "_operator_in_env_begin", "_operator_merge_end", "_operator_set_user_begin",
     "xxx"}

SelectInit ==
    /\ Idle
    /\ call \in {[fn |-> "select_builtin", lit |-> Literal(p, args, 0)] :
                    p \in SelectPredicates, args \in Tuples(SelectTerms, MaxArgs)}
    /\ ret = NoRet

SelectBuiltin ==
    /\ call.fn = "select_builtin"
    /\ ret = NoRet
    /\ ret' = [returned |-> TRUE, value |-> select_builtin(call.lit)]
    /\ UNCHANGED <<planner_vars, call, atomic_vars>>

SelectNext == SelectBuiltin

SelectSpec == SelectInit /\ [][SelectNext]_vars

(* ------------------- Literal::unify and composition -------------------- *)
\* Bound on the number of arguments of the literals given to unify.
MaxArity == 3

\* Term::Variable, Term::Constant and Term::Compound of unification.rs are the
\* UserVariable, Constant and List terms; a Substitution maps variable names
\* to terms.
Variable(v) == UserVariable(v)
Compound(args) == List(args)

\* The todo!() of substitute on a compound term.
Todo == [tag |-> "todo!"]

signature(l) == <<l.predicate, Len(l.args)>>

\* impl Substitutable for Term
substitute(t, s) ==
    IF t.tag = "UserVariable" THEN (IF t.val \in DOMAIN s THEN s[t.val] ELSE t)
    ELSE IF t.tag = "List" THEN Todo
    ELSE t

\* impl Substitutable for Literal
substitute_literal(l, s) ==
    [l EXCEPT !.args = [i \in DOMAIN l.args |-> substitute(l.args[i], s)]]

None == [kind |-> "None"]
Some(s) == [kind |-> "Some", s |-> s]
Panicked == [kind |-> "panic"]

\* Mutant of composition: the values of l are copied as they are.
composition_copy(l, r) ==
    [k \in DOMAIN l \cup DOMAIN r |-> IF k \in DOMAIN r THEN r[k] ELSE l[k]]

\* The entries of l with r applied to their values, then every entry of r,
\* inserted over an entry of l on the same key; substitute does not return
\* on a compound value of l.
composition(l, r) ==
    IF \E k \in DOMAIN l : substitute(l[k], r) = Todo THEN Panicked
    ELSE [k \in DOMAIN l \cup DOMAIN r |->
             IF k \in DOMAIN r THEN r[k] ELSE substitute(l[k], r)]

\* The loop of unify over the arguments from index i on.
RECURSIVE unify_from(_, _, _, _)
unify_from(self, other, i, s) ==
    IF i > Len(self.args) THEN Some(s)
    ELSE IF self.args[i].tag = "List" \/ other.args[i].tag = "List" THEN Panicked
    ELSE LET self_term_subs == substitute(self.args[i], s)
             other_term_subs == substitute(other.args[i], s)
         IN IF self_term_subs = other_term_subs
            THEN unify_from(self, other, i + 1, s)
            ELSE IF self_term_subs.tag = "UserVariable"
            THEN unify_from(self, other, i + 1,
                            composition(s, self_term_subs.val :> other_term_subs))
            ELSE IF other_term_subs.tag = "UserVariable"
            THEN unify_from(self, other, i + 1,
                            composition(s, other_term_subs.val :> self_term_subs))
            ELSE None

\* Mutant of unify: only the number of arguments is compared.
unify_any_predicate(self, other) ==
    IF Len(self.args) # Len(other.args) THEN None
    ELSE unify_from(self, other, 1, EmptyMap)

unify(self, other) ==
    IF signature(self) # signature(other) THEN None
    ELSE unify_from(self, other, 1, EmptyMap)

VariableNames == {"X", "Y"}
SimpleTerms == {Constant("a"), Constant("b")} \cup {Variable(v) : v \in VariableNames}
UnifyTerms == SimpleTerms \cup {Compound(<<Constant("a")>>)}

UnifyLiterals ==
    {Literal("p", args, 0) : args \in Tuples(UnifyTerms, MaxArity)}
    \cup {Literal("q", args, 0) : args \in Tuples(SimpleTerms, 1)}

Substitutions == UNION {[d -> UnifyTerms] : d \in SUBSET VariableNames}

UnifyInit ==
    /\ Idle
    /\ call \in {[fn |-> "unify", self |-> l, other |-> m] :
                    l \in UnifyLiterals, m \in UnifyLiterals}
                \cup {[fn |-> "composition", l |-> l, r |-> r] :
                    l \in Substitutions, r \in Substitutions}
    /\ ret = NoRet

Unify ==
    /\ call.fn = "unify"
    /\ ret = NoRet
    /\ ret' = [returned |-> TRUE, value |-> unify(call.self, call.other)]
    /\ UNCHANGED <<planner_vars, call, atomic_vars>>

Composition ==
    /\ call.fn = "composition"
    /\ ret = NoRet
    /\ ret' = [returned |-> TRUE, value |-> composition(call.l, call.r)]
    /\ UNCHANGED <<planner_vars, call, atomic_vars>>

UnifyNext == Unify \/ Composition

UnifySpec == UnifyInit /\ [][UnifyNext]_vars

(* ------------------------------ translate.rs --------------------------- *)
\* Bound on the number of literals of the clause bodies that are lowered.
MaxLeaves == 4

\* modusfile::Expression; And and Or carry the flag translate.rs matches on.
LiteralExpr(l) == [kind |-> "Literal", lit |-> l]
OperatorApplication(expr, op) ==
    [kind |-> "OperatorApplication", expr |-> expr, op |-> op]
And(positive, expr1, expr2) ==
    [kind |-> "And", positive |-> positive, expr1 |-> expr1, expr2 |-> expr2]
Or(positive, expr1, expr2) ==
    [kind |-> "Or", positive |-> positive, expr1 |-> expr1, expr2 |-> expr2]
Operator(predicate, args, position) ==
    [predicate |-> predicate, args |-> args, position |-> position]
NoBody == [kind |-> "None"]
ModusClause(head, body) == [head |-> head, body |-> body]

\* Expression::negate_current: the flag of the outermost node is flipped.
negate_current(e) ==
    IF e.kind = "Literal" THEN LiteralExpr(negated(e.lit))
    ELSE IF e.kind \in {"And", "Or"} THEN [e EXCEPT !.positive = ~e.positive]
    ELSE e

\* ModusTerm::FormatString; ModusTerm::Constant and ModusTerm::UserVariable
\* are written with Constant and UserVariable.
FormatString(position, format_string_literal) ==
    [tag |-> "FormatString", position |-> position,
     format_string_literal |-> format_string_literal]

AuxiliaryVariable(index) == [tag |-> "AuxiliaryVariable", index |-> index]

\* Some(SpannedPosition {offset, length}) as a position: a positive number,
\* distinct for distinct spans.
SpannedPosition(offset, length) ==
    ((offset + length) * (offset + length + 1)) \div 2 + length + 1

Char(s, i) == SubSeq(s, i, i)

Whitespace == {" ", "\t", "\n", "\r"}

\* chars.peek() / chars.next() while c.is_whitespace()
RECURSIVE skip_whitespace(_, _)
skip_whitespace(s, i) ==
    IF i <= Len(s) /\ Char(s, i) \in Whitespace THEN skip_whitespace(s, i + 1) ELSE i

\* The loop of process_raw_string from character i on.
RECURSIVE process_raw(_, _, _)
process_raw(s, i, processed) ==
    IF i > Len(s) THEN processed
    ELSE IF Char(s, i) # "\\" THEN process_raw(s, i + 1, processed \o Char(s, i))
    ELSE IF i = Len(s) THEN Panicked
    ELSE LET c == Char(s, i + 1) IN
         IF c = "\"" THEN process_raw(s, i + 2, processed \o "\"")
         ELSE IF c = "\\" THEN process_raw(s, i + 2, processed \o "\\")
         ELSE IF c = "n" THEN process_raw(s, i + 2, processed \o "\n")
         ELSE IF c = "r" THEN process_raw(s, i + 2, processed \o "\r")
         ELSE IF c = "t" THEN process_raw(s, i + 2, processed \o "\t")
         ELSE IF c = "0" THEN process_raw(s, i + 2, processed \o "<NUL>")
         ELSE IF c = "\n" THEN process_raw(s, skip_whitespace(s, i + 2), processed)
         ELSE process_raw(s, i + 2, processed \o "\\" \o c)

process_raw_string(s) == process_raw(s, 1, "")

\* str::replace(from, to) with a pattern of two characters.
RECURSIVE replace(_, _, _)
replace(s, from, to) ==
    IF Len(s) < 2 THEN s
    ELSE IF SubSeq(s, 1, 2) = from THEN to \o replace(SubSeq(s, 3, Len(s)), from, to)
    ELSE Char(s, 1) \o replace(SubSeq(s, 2, Len(s)), from, to)

\* escaped(none_of("\\$"), '\\', one_of("$")) from character k on: the number
\* of characters recognized, or -1 for Err.
RECURSIVE escaped(_, _)
escaped(s, k) ==
    IF k > Len(s) THEN Len(s)
    ELSE IF Char(s, k) \notin {"\\", "$"} THEN escaped(s, k + 1)
    ELSE IF Char(s, k) = "\\"
         THEN IF k = Len(s) THEN -1
              ELSE IF Char(s, k + 1) = "$" THEN escaped(s, k + 2)
              ELSE -1
    ELSE IF k = 1 THEN -1 ELSE k - 1

\* recognize(opt(escaped(...))): the length of the constant span.
outside_format_expansion(s) == IF escaped(s, 1) = -1 THEN 0 ELSE escaped(s, 1)

Alpha ==
    {"a", "b", "c", "d", "e", "f", "g", "h", "i", "j", "k", "l", "m", "n", "o",
     "p", "q", "r", "s", "t", "u", "v", "w", "x", "y", "z",
     "A", "B", "C", "D", "E", "F", "G", "H", "I", "J", "K", "L", "M", "N", "O",
     "P", "Q", "R", "S", "T", "U", "V", "W", "X", "Y", "Z"}
Digit == {"0", "1", "2", "3", "4", "5", "6", "7", "8", "9"}

\* many0(alt((alphanumeric1, tag("_"), tag("-")))) from character k on: the
\* index after the identifier.
RECURSIVE identifier_end(_, _)
identifier_end(s, k) ==
    IF k <= Len(s) /\ Char(s, k) \in Alpha \cup Digit \cup {"_", "-"}
    THEN identifier_end(s, k + 1)
    ELSE k

\* literal_identifier: the length of the identifier s starts with, 0 for Err.
\* alpha1 takes every leading letter, tag("_") a single underscore.
literal_identifier(s) ==
    IF s = "" THEN 0
    ELSE IF Char(s, 1) \in Alpha \cup {"_"} THEN identifier_end(s, 2) - 1
    ELSE 0

modus_var(s) == literal_identifier(s)

\* delimited(tag("${"), modus_var, tag("}")): the length of the variable when
\* the expansion parses, 0 otherwise (Error or Incomplete).
variable_res(s) ==
    IF ~starts_with(s, "${") THEN 0
    ELSE LET n == modus_var(SubSeq(s, 3, Len(s))) IN
         IF n > 0 /\ Len(s) >= n + 3 /\ Char(s, n + 3) = "}" THEN n ELSE 0

string_concat(a, b, c, position) == Literal("string_concat", <<a, b, c>>, position)

\* The while loop of convert_format_string; index is AVAILABLE_VARIABLE_INDEX.
RECURSIVE convert_loop(_, _, _, _, _, _)
convert_loop(offset, curr_string, curr_string_offset, prev_variable, new_literals, index) ==
    IF curr_string = ""
    THEN [literals |-> new_literals, term |-> prev_variable, index |-> index]
    ELSE LET span_length == outside_format_expansion(curr_string)
             constant_str == SubSeq(curr_string, 1, span_length)
             i == SubSeq(curr_string, span_length + 1, Len(curr_string))
             constant_string == replace(process_raw_string(constant_str), "\\$", "$")
             lits1 == IF span_length > 0
                      THEN Append(new_literals,
                                  string_concat(prev_variable, Constant(constant_string),
                                                AuxiliaryVariable(index),
                                                SpannedPosition(offset + curr_string_offset,
                                                                span_length)))
                      ELSE new_literals
             prev1 == IF span_length > 0 THEN AuxiliaryVariable(index) ELSE prev_variable
             index1 == IF span_length > 0 THEN index + 1 ELSE index
             offset1 == curr_string_offset + span_length
             n == variable_res(i)
         IN IF n > 0
            THEN convert_loop(offset, SubSeq(i, n + 4, Len(i)), offset1 + n + 3,
                              AuxiliaryVariable(index1),
                              Append(lits1,
                                     string_concat(prev1, UserVariable(SubSeq(i, 3, n + 2)),
                                                   AuxiliaryVariable(index1),
                                                   SpannedPosition(offset + offset1, n + 3))),
                              index1 + 1)
            ELSE [literals |-> lits1, term |-> prev1, index |-> index1]

convert_format_string(spanned_position, format_string_content, index) ==
    convert_loop(spanned_position.offset, format_string_content, 2,
                 AuxiliaryVariable(index),
                 <<string_concat(Constant(""), Constant(""), AuxiliaryVariable(index),
                                 SpannedPosition(spanned_position.offset, 1))>>,
                 index + 1)

\* translate_term with AVAILABLE_VARIABLE_INDEX at index: the IR term, the
\* literals to add and the index afterwards.
translate_term(t, index) ==
    IF t.tag = "Constant"
    THEN [term |-> Constant(process_raw_string(t.val)), literals |-> <<>>, index |-> index]
    ELSE IF t.tag = "FormatString"
    THEN convert_format_string(t.position, t.format_string_literal, index)
    ELSE [term |-> t, literals |-> <<>>, index |-> index]

\* for arg in args { translate_term(arg) }: the translated arguments, the
\* literals of all of them in order and the index afterwards.
RECURSIVE translate_args(_, _)
translate_args(args, index) ==
    IF args = <<>> THEN [args |-> <<>>, literals |-> <<>>, index |-> index]
    ELSE LET first == translate_term(Head(args), index)
             rest == translate_args(Tail(args), first.index)
         IN [args |-> <<first.term>> \o rest.args,
             literals |-> first.literals \o rest.literals,
             index |-> rest.index]

\* Mutant of product: the clauses of c2 are walked in the outer loop.
product_right_first(c1, c2) ==
    [k \in 1..(Len(c1) * Len(c2)) |->
        LET i == ((k - 1) % Len(c1)) + 1
            j == ((k - 1) \div Len(c1)) + 1
        IN Clause(c1[i].head, c1[i].body \o c2[j].body)]

\* for clause1 in &c1 { for clause2 in &c2 { push(clause1.body ++ clause2.body) } }
product(c1, c2) ==
    [k \in 1..(Len(c1) * Len(c2)) |->
        LET i == ((k - 1) \div Len(c2)) + 1
            j == ((k - 1) % Len(c2)) + 1
        IN Clause(c1[i].head, c1[i].body \o c2[j].body)]

RECURSIVE operator_clauses(_, _, _, _, _), operator_clauses_after(_, _, _, _, _)

\* Mutant of operator_clauses: both markers are put after the body of c.
operator_clauses_after(inner, op, k, id, index) ==
    IF k > Len(inner) THEN [clauses |-> <<>>, id |-> id, index |-> index]
    ELSE LET translated == translate_args(op.args, index)
             c == inner[k]
             body == translated.literals
                     \o c.body
                     \o <<OpBegin(op.predicate, ToString(id), translated.args, op.position)>>
                     \o <<OpEnd(op.predicate, ToString(id), translated.args, op.position)>>
             rest == operator_clauses_after(inner, op, k + 1, id + 1, translated.index)
         IN [clauses |-> <<Clause(c.head, body)>> \o rest.clauses,
             id |-> rest.id, index |-> rest.index]

\* The clauses the closure of the OperatorApplication case maps the clauses
\* of the inner expression to, from clause k on.
operator_clauses(inner, op, k, id, index) ==
    IF k > Len(inner) THEN [clauses |-> <<>>, id |-> id, index |-> index]
    ELSE LET translated == translate_args(op.args, index)
             c == inner[k]
             body == translated.literals
                     \o <<OpBegin(op.predicate, ToString(id), translated.args, op.position)>>
                     \o c.body
                     \o <<OpEnd(op.predicate, ToString(id), translated.args, op.position)>>
             rest == operator_clauses(inner, op, k + 1, id + 1, translated.index)
         IN [clauses |-> <<Clause(c.head, body)>> \o rest.clauses,
             id |-> rest.id, index |-> rest.index]

\* Vec<logic::Clause>::from(&ModusClause), with OPERATOR_PAIR_ID at id and
\* AVAILABLE_VARIABLE_INDEX at index: the clauses and both counters afterwards.
RECURSIVE from_modus_clause(_, _, _)
from_modus_clause(modus_clause, id, index) ==
    LET head == modus_clause.head
        body == modus_clause.body
    IN
    IF body.kind = "None"
    THEN [clauses |-> <<Clause(head, <<>>)>>, id |-> id, index |-> index]
    ELSE IF body.kind = "Literal"
    THEN LET translated == translate_args(body.lit.args, index) IN
         [clauses |->
             <<Clause(head,
                      Append(translated.literals,
                             [positive |-> body.lit.positive,
                              position |-> body.lit.position,
                              predicate |-> body.lit.predicate,
                              args |-> translated.args]))>>,
          id |-> id, index |-> translated.index]
    ELSE IF body.kind = "OperatorApplication"
    THEN LET inner == from_modus_clause(ModusClause(head, body.expr), id, index)
         IN operator_clauses(inner.clauses, body.op, 1, inner.id, inner.index)
    ELSE IF body.positive
    THEN LET c1 == from_modus_clause(ModusClause(head, body.expr1), id, index)
             c2 == from_modus_clause(ModusClause(head, body.expr2), c1.id, c1.index)
         IN [clauses |-> (IF body.kind = "And" THEN product(c1.clauses, c2.clauses)
                          ELSE c1.clauses \o c2.clauses),
             id |-> c2.id, index |-> c2.index]
    ELSE from_modus_clause(
            ModusClause(head,
                        [kind |-> (IF body.kind = "And" THEN "Or" ELSE "And"),
                         positive |-> TRUE,
                         expr1 |-> negate_current(body.expr1),
                         expr2 |-> negate_current(body.expr2)]),
            id, index)

\* The bodies lowered: expressions over a and !c(X) with n literals ...
Leaves ==
    {LiteralExpr(Literal("a", <<>>, 0)),
     LiteralExpr(negated(Literal("c", <<UserVariable("X")>>, 0)))}

RECURSIVE Expressions(_)
Expressions(n) ==
    IF n = 1 THEN Leaves
    ELSE UNION {{[kind |-> k, positive |-> p, expr1 |-> e1, expr2 |-> e2] :
                    k \in {"And", "Or"}, p \in BOOLEAN,
                    e1 \in Expressions(i), e2 \in Expressions(n - i)} :
                i \in 1..(n - 1)}

\* The expressions of at most n literals.
Bodies(n) == UNION {Expressions(k) : k \in 1..n}

merge == Operator("merge", <<>>, 0)
in_workdir == Operator("in_workdir", <<UserVariable("X")>>, 0)

\* ... and those under an operator, alone or next to another operator.
OperatorBodies(n) ==
    {OperatorApplication(e, merge) : e \in Bodies(n)}
    \cup {And(TRUE, OperatorApplication(e1, merge), OperatorApplication(e2, in_workdir)) :
             e1 \in Expressions(2), e2 \in Expressions(1)}
    \cup {OperatorApplication(OperatorApplication(e, in_workdir), merge) :
             e \in Expressions(2)}

\* Literals and operators with constant and format string arguments ...
FormatLeaves ==
    {LiteralExpr(Literal("run", <<FormatString([offset |-> 4, length |-> 9], "a${v}b")>>, 0)),
     LiteralExpr(Literal("from", <<Constant("x\\ty")>>, 0)),
     LiteralExpr(Literal("a", <<>>, 0))}

FormatOperators ==
    {merge, in_workdir,
     Operator("in_workdir", <<FormatString([offset |-> 20, length |-> 9], "${v}/d")>>, 0),
     Operator("in_env", <<FormatString([offset |-> 30, length |-> 4], "K"),
                          FormatString([offset |-> 36, length |-> 7], "${v}")>>, 0),
     Operator("copy", <<Constant("/a\\\\"), FormatString([offset |-> 50, length |-> 5], "b\\$")>>, 0)}

\* ... in bodies of one or two literals under one or two operators.
FormatExpressions ==
    FormatLeaves
    \cup {[kind |-> k, positive |-> TRUE, expr1 |-> e1, expr2 |-> e2] :
             k \in {"And", "Or"}, e1 \in FormatLeaves, e2 \in FormatLeaves}

FormatBodies ==
    FormatLeaves
    \cup {OperatorApplication(e, op) : e \in FormatExpressions, op \in FormatOperators}
    \cup {OperatorApplication(OperatorApplication(e, op1), op2) :
             e \in FormatExpressions, op1 \in FormatOperators, op2 \in FormatOperators}
    \cup {And(TRUE, OperatorApplication(e1, op1), OperatorApplication(e2, op2)) :
             e1 \in FormatLeaves, e2 \in FormatExpressions,
             op1 \in FormatOperators, op2 \in FormatOperators}

\* Bound on the length of the format strings that are converted.
MaxFormatLen == 5

\* The contents of the format strings: a letter, a separator and the
\* characters the conversion looks at.
FormatAlphabet == {"n", "/", "$", "{", "}", "\\"}

RECURSIVE Strings(_)
Strings(n) ==
    IF n = 0 THEN {""}
    ELSE LET shorter == Strings(n - 1)
         IN shorter \cup {c \o str : c \in FormatAlphabet,
                                     str \in {x \in shorter : Len(x) = n - 1}}

FormatStrings == Strings(MaxFormatLen)

\* The call of from on the clause foo :- b.
FromCall(b) == [fn |-> "from", modus_clause |-> ModusClause(Literal("foo", <<>>, 0), b)]

\* The bodies of Bodies(MaxLeaves), OperatorBodies(MaxLeaves) and FormatBodies
\* and the empty body; the expressions of MaxLeaves literals are enumerated
\* by their outermost node.
TranslateInit ==
    /\ Idle
    /\ \/ call \in {FromCall(b) :
                       b \in Bodies(MaxLeaves - 1) \cup OperatorBodies(MaxLeaves - 1)
                              \cup FormatBodies \cup {NoBody}}
       \/ \E i \in 1..(MaxLeaves - 1), k \in {"And", "Or"}, p \in BOOLEAN :
             \E e1 \in Expressions(i), e2 \in Expressions(MaxLeaves - i) :
                LET e == [kind |-> k, positive |-> p, expr1 |-> e1, expr2 |-> e2]
                IN call \in {FromCall(e), FromCall(OperatorApplication(e, merge))}
       \/ call \in {[fn |-> "convert_format_string",
                      spanned_position |-> [offset |-> 0, length |-> Len(str) + 3],
                      format_string_content |-> str] : str \in FormatStrings}
    /\ ret = NoRet

Translate ==
    /\ call.fn = "from"
    /\ ret = NoRet
    /\ ret' = [returned |-> TRUE, value |-> from_modus_clause(call.modus_clause, 0, 0)]
    /\ UNCHANGED <<planner_vars, call, atomic_vars>>

ConvertFormatString ==
    /\ call.fn = "convert_format_string"
    /\ ret = NoRet
    /\ ret' = [returned |-> TRUE,
               value |-> convert_format_string(call.spanned_position,
                                               call.format_string_content, 0)]
    /\ UNCHANGED <<planner_vars, call, atomic_vars>>

TranslateNext == Translate \/ ConvertFormatString

TranslateSpec == TranslateInit /\ [][TranslateNext]_vars

(* ------------- proofs of lowered clauses and the end-marker scan -------- *)
\* The head of the clauses that are lowered and resolved: the variables of
\* the bodies are bound by the query.
scanned_head == Literal("foo", <<UserVariable("v"), UserVariable("X")>>, 0)

\* A literal of a Modusfile body whose predicate is a marker name:
\* literal_identifier accepts a leading underscore.
MarkerLeaves ==
    {LiteralExpr(Literal("_operator_merge_begin", <<Constant("0")>>, 0))}

\* Bodies with operators, and bodies in which a marker name is written out.
ScannedBodies(n) ==
    OperatorBodies(n) \cup FormatBodies \cup MarkerLeaves
    \cup {And(TRUE, e1, e2) : e1 \in MarkerLeaves, e2 \in FormatLeaves}
    \cup {And(TRUE, e1, e2) : e1 \in FormatLeaves, e2 \in MarkerLeaves}
    \cup {OperatorApplication(e, op) : e \in MarkerLeaves, op \in FormatOperators}

\* A term under the valuation of a proof: every variable is bound.
valued(t) ==
    IF t.tag \in {"UserVariable", "AuxiliaryVariable"} THEN Constant("g") ELSE t

\* The child of a proof node for the body literal l of its clause.
child_of(l) ==
    LET lit == [l EXCEPT !.args = [i \in DOMAIN l.args |-> valued(l.args[i])]]
    IN Proof(IF ~lit.positive THEN NegationCheckClause(lit)
             ELSE IF IsBuiltin(lit) THEN BuiltinClause(lit)
             ELSE RuleClause(1),
             EmptyMap, <<>>)

\* The children of a proof node that resolved a clause with this body:
\* one per body literal, leftmost first.
children_of(body) == [k \in DOMAIN body |-> child_of(body[k])]

\* The loop of process_children from child i on, with the recursion of
\* process_operator into the region: "Ok" when every scan for an end marker
\* stops inside its list, "panic" when one indexes past the end.
RECURSIVE process_children_scan(_, _)
process_children_scan(children, i) ==
    IF i > Len(children) THEN "Ok"
    ELSE IF /\ children[i].clause.kind = "Builtin"
            /\ IsOperatorBegin(children[i].clause.lit.predicate)
    THEN LET j == EndIndex(children, i) IN
         IF j = 0 THEN "panic"
         ELSE IF process_children_scan(SubSeq(children, i + 1, j - 1), 1) = "panic"
         THEN "panic"
         ELSE process_children_scan(children, j + 1)
    ELSE process_children_scan(children, i + 1)

\* The clauses lowered from a Modusfile clause, the children of the proof
\* nodes that resolve them, and what the walk over each list does.
scan_lowered(modus_clause) ==
    LET clauses == from_modus_clause(modus_clause, 0, 0).clauses
    IN [k \in DOMAIN clauses |->
          [children |-> children_of(clauses[k].body),
           scan |-> process_children_scan(children_of(clauses[k].body), 1)]]

ScanInit ==
    /\ Idle
    /\ call \in {[fn |-> "scan", modus_clause |-> ModusClause(scanned_head, b)] :
                    b \in ScannedBodies(MaxLeaves)}
    /\ ret = NoRet

ScanLowered ==
    /\ call.fn = "scan"
    /\ ret = NoRet
    /\ ret' = [returned |-> TRUE, value |-> scan_lowered(call.modus_clause)]
    /\ UNCHANGED <<planner_vars, call, atomic_vars>>

ScanNext == ScanLowered

ScanSpec == ScanInit /\ [][ScanNext]_vars

(* --------------------------- plan_from_modusfile ----------------------- *)
\* Bound on the number of literals of the queries.
MaxQueryLeaves == 3

\* Predicate::naive_predicate_kind
naive_predicate_kind(predicate) ==
    IF predicate = "from" THEN "Image"
    ELSE IF predicate \in {"run", "copy"} THEN "Layer"
    ELSE "Logic"

\* kinds().pred_kind for the predicates of Rules: a builds an image, lay adds
\* a layer, every other predicate has the kind its name gives it.
pred_kind(predicate) ==
    IF predicate = "a" THEN "Image"
    ELSE IF predicate = "lay" THEN "Layer"
    ELSE naive_predicate_kind(predicate)

\* Expression::literals: the literals of the expression, left to right.
RECURSIVE literals(_)
literals(e) ==
    IF e.kind = "Literal" THEN <<e.lit>>
    ELSE IF e.kind = "OperatorApplication" THEN literals(e.expr)
    ELSE literals(e.expr1) \o literals(e.expr2)

Diagnostic(message, count) == [message |-> message, count |-> count]

Err(errs) == [kind |-> "Err", errs |-> errs]
Ok(value) == [kind |-> "Ok", value |-> value]

RECURSIVE validate_query_expression(_), validate_query_expression_top(_)

\* Mutant of validate_query_expression: And and Or are not descended into.
validate_query_expression_top(query) ==
    IF query.kind = "OperatorApplication"
    THEN Err(<<Diagnostic("Operators in queries are currently unsupported.", 0)>>)
    ELSE Ok(<<>>)

validate_query_expression(query) ==
    IF query.kind = "Literal" THEN Ok(<<>>)
    ELSE IF query.kind = "OperatorApplication"
    THEN Err(<<Diagnostic("Operators in queries are currently unsupported.", 0)>>)
    ELSE LET r1 == validate_query_expression(query.expr1)
         IN IF r1.kind = "Err" THEN r1 ELSE validate_query_expression(query.expr2)

count(seq, kind) ==
    Cardinality({k \in DOMAIN seq : pred_kind(seq[k].predicate) = kind})

get_image_literal(query) ==
    LET validated == validate_query_expression(query)
        errs1 == IF validated.kind = "Err" THEN validated.errs ELSE <<>>
        query_lits == literals(query)
        image_count == count(query_lits, "Image")
        errs2 == IF image_count # 1
                 THEN Append(errs1,
                             Diagnostic("There must be exactly one image predicate in the query",
                                        image_count))
                 ELSE errs1
        layer_count == count(query_lits, "Layer")
        errs3 == IF layer_count > 0
                 THEN Append(errs2,
                             Diagnostic("Layer predicates in queries are currently unsupported",
                                        layer_count))
                 ELSE errs2
    IN IF errs3 # <<>> THEN Err(errs3)
       ELSE Ok(query_lits[CHOOSE k \in DOMAIN query_lits :
                             /\ pred_kind(query_lits[k].predicate) = "Image"
                             /\ \A j \in 1..(k - 1) :
                                   pred_kind(query_lits[j].predicate) # "Image"])

\* plan_from_modusfile up to the call of sld::sld: the diagnostics returned
\* by the ? on get_image_literal, or the image literal resolution starts with.
plan_from_modusfile(query) ==
    LET image_literal == get_image_literal(query)
    IN IF image_literal.kind = "Err"
       THEN [result |-> image_literal, resolved |-> FALSE]
       ELSE [result |-> image_literal, resolved |-> TRUE]

QueryLeaves ==
    {LiteralExpr(Literal(pr, <<>>, 0)) : pr \in {"a", "lay", "l"}}

set_user == Operator("set_user", <<Constant("u")>>, 0)

\* The queries: conjunctions and disjunctions of n literals, with operators
\* applied to the literals and to the pairs of literals.
RECURSIVE QueryExpressions(_)
QueryExpressions(n) ==
    LET plain ==
            IF n = 1 THEN QueryLeaves
            ELSE UNION {{[kind |-> k, positive |-> TRUE, expr1 |-> e1, expr2 |-> e2] :
                            k \in {"And", "Or"},
                            e1 \in QueryExpressions(i), e2 \in QueryExpressions(n - i)} :
                        i \in 1..(n - 1)}
    IN IF n <= 2 THEN plain \cup {OperatorApplication(e, set_user) : e \in plain}
       ELSE plain

\* The queries of at most n literals.
Queries(n) == UNION {QueryExpressions(k) : k \in 1..n}

\* The queries of Queries(MaxQueryLeaves); those of MaxQueryLeaves literals
\* are enumerated by their outermost node.
QueryInit ==
    /\ Idle
    /\ \/ call \in {[fn |-> "plan_from_modusfile", query |-> q] :
                       q \in Queries(MaxQueryLeaves - 1)}
       \/ \E i \in 1..(MaxQueryLeaves - 1), k \in {"And", "Or"} :
             \E e1 \in QueryExpressions(i), e2 \in QueryExpressions(MaxQueryLeaves - i) :
                call = [fn |-> "plan_from_modusfile",
                        query |-> [kind |-> k, positive |-> TRUE,
                                   expr1 |-> e1, expr2 |-> e2]]
    /\ ret = NoRet

PlanFromModusfile ==
    /\ call.fn = "plan_from_modusfile"
    /\ ret = NoRet
    /\ ret' = [returned |-> TRUE, value |-> plan_from_modusfile(call.query)]
    /\ UNCHANGED <<planner_vars, call, atomic_vars>>

QueryNext == PlanFromModusfile

QuerySpec == QueryInit /\ [][QueryNext]_vars

(* --------------------------- the global counters ----------------------- *)
\* Mutant of fetch_add: the value read is stored back.
fetch_add_stored(value) == value

\* AtomicU32 / AtomicUsize::fetch_add(1, SeqCst): the value stored; the value
\* read is returned.  The bound on the calls keeps it far below the width.
fetch_add(value) == value + 1

Handed(t, by, value) == [thread |-> t, by |-> by, value |-> value]

CounterInit ==
    /\ Idle
    /\ call = NoCall
    /\ ret = NoRet

CanFetch(t) == status = "call" /\ call = NoCall /\ t \in Threads /\ fetches < MaxFetches

\* IRTerm::rename of a variable on thread t
Rename(t) ==
    /\ CanFetch(t)
    /\ AVAILABLE_VARIABLE_INDEX' = fetch_add(AVAILABLE_VARIABLE_INDEX)
    /\ handed' = Append(handed, Handed(t, "rename", AVAILABLE_VARIABLE_INDEX))
    /\ fetches' = fetches + 1
    /\ UNCHANGED <<planner_vars, call, ret, OPERATOR_PAIR_ID>>

\* IRTerm::aux on thread t
Aux(t) ==
    /\ CanFetch(t)
    /\ AVAILABLE_VARIABLE_INDEX' = fetch_add(AVAILABLE_VARIABLE_INDEX)
    /\ handed' = Append(handed, Handed(t, "aux", AVAILABLE_VARIABLE_INDEX))
    /\ fetches' = fetches + 1
    /\ UNCHANGED <<planner_vars, call, ret, OPERATOR_PAIR_ID>>

\* The pair-id of one clause of an operator application lowered on thread t
OperatorPairId(t) ==
    /\ CanFetch(t)
    /\ OPERATOR_PAIR_ID' = fetch_add(OPERATOR_PAIR_ID)
    /\ handed' = Append(handed, Handed(t, "operator", OPERATOR_PAIR_ID))
    /\ fetches' = fetches + 1
    /\ UNCHANGED <<planner_vars, call, ret, AVAILABLE_VARIABLE_INDEX>>

Forget(by) ==
    LET RECURSIVE kept(_)
        kept(h) == IF h = <<>> THEN <<>>
                   ELSE (IF Head(h).by \in by THEN <<>> ELSE <<Head(h)>>) \o kept(Tail(h))
    IN kept(handed)

\* tests::setup: AVAILABLE_VARIABLE_INDEX.store(0, SeqCst)
setup ==
    /\ status = "call" /\ call = NoCall
    /\ AVAILABLE_VARIABLE_INDEX # 0
    /\ AVAILABLE_VARIABLE_INDEX' = 0
    /\ handed' = Forget({"rename", "aux"})
    /\ UNCHANGED <<planner_vars, call, ret, OPERATOR_PAIR_ID, fetches>>

\* reset_operator_pair_id (cfg(test)): OPERATOR_PAIR_ID.store(0, SeqCst)
reset_operator_pair_id ==
    /\ status = "call" /\ call = NoCall
    /\ OPERATOR_PAIR_ID # 0
    /\ OPERATOR_PAIR_ID' = 0
    /\ handed' = Forget({"operator"})
    /\ UNCHANGED <<planner_vars, call, ret, AVAILABLE_VARIABLE_INDEX, fetches>>

CounterNext ==
    \/ \E t \in Threads : Rename(t)
    \/ \E t \in Threads : Aux(t)
    \/ \E t \in Threads : OperatorPairId(t)
    \/ setup
    \/ reset_operator_pair_id

CounterSpec == CounterInit /\ [][CounterNext]_vars

(* ------------------------------ properties ----------------------------- *)
Node(id) == res.nodes[id + 1]
Deps(id) == Range(res.dependencies[id + 1])

\* The node ids reachable from some Output.node through dependencies.
RECURSIVE Closure(_, _)
Closure(set, fuel) ==
    IF fuel = 0 THEN set
    ELSE Closure(set \cup UNION {Deps(n) : n \in set}, fuel - 1)

Reachable == Closure({res.outputs[k].node : k \in DOMAIN res.outputs}, Len(res.nodes))

\* C1: topological_order() lists exactly the node ids reachable from the
\* outputs, each once, every node after all of its dependencies; the other
\* nodes are left out.
C1_TopologicalOrder ==
    LET order == topological_order(res) IN
    /\ Range(order) = Reachable
    /\ \A i, j \in DOMAIN order : order[i] = order[j] => i = j
    /\ \A i \in DOMAIN order : \A d \in Deps(order[i]) :
          \E j \in 1..(i - 1) : order[j] = d
    /\ \A n \in NodeIds(res) \ Reachable : n \notin Range(order)

\* Two outputs share node 0, node 3 depends on both of them and is reached by
\* no output.
C1_Witness ==
    /\ status = "plan"
    /\ Len(res.nodes) = 4
    /\ Len(res.outputs) = 2
    /\ topological_order(res) = <<0, 1, 2>>
    /\ Deps(3) = {1, 2}

IsModusLabel(n) == n.kind = "SetLabel" /\ n.label = MODUS_LABEL

SingleQuery(pred) ==
    /\ Len(query_and_proofs) = 1
    /\ query_and_proofs[1].query = Query(pred, <<>>)

\* C2: for a :- from("ubuntu"), run("rm -rf /") and query a the plan is
\* From (0), Run (1), SetLabel (2) with output node 2; a queried image gets
\* exactly one label node, placed directly on its last build instruction.
C2_SimplestImage ==
    /\ (status = "done" /\ SingleQuery("a")) =>
          /\ res.nodes =
                <<[kind |-> "From", image_ref |-> "ubuntu", display_name |-> "ubuntu"],
                  [kind |-> "Run", parent |-> 0, command |-> "rm -rf /", cwd |-> "",
                   additional_envs |-> EmptyMap],
                  [kind |-> "SetLabel", parent |-> 1, label |-> MODUS_LABEL,
                   value |-> "a"]>>
          /\ [k \in DOMAIN res.outputs |-> res.outputs[k].node] = <<2>>
    /\ (status = "done" /\ Len(query_and_proofs) = 1) =>
          LET value == LiteralToString(query_and_proofs[1].query)
              labels == {n \in NodeIds(res) :
                            IsModusLabel(Node(n)) /\ Node(n).value = value}
          IN /\ Cardinality(labels) = 1
             /\ \A n \in labels : ~IsModusLabel(Node(Node(n).parent))

\* C3: every output is a SetLabel node with the label MODUS_LABEL and the
\* string of its query literal as value, one output per (query, proof) pair
\* in input order.
C3_OutputsLabelled ==
    /\ Len(res.outputs) = (IF status \in {"running", "panicked"} THEN next_query - 1
                           ELSE Len(query_and_proofs))
    /\ \A k \in DOMAIN res.outputs :
          LET o == res.outputs[k] IN
          /\ o.source_literal = query_and_proofs[k].query
          /\ o.node \in NodeIds(res)
          /\ IsModusLabel(Node(o.node))
          /\ Node(o.node).value = LiteralToString(query_and_proofs[k].query)

\* Two queries planned, the second one found in image_literals.
C3_Witness ==
    /\ status = "done"
    /\ Len(res.outputs) = 2
    /\ res.outputs[1].node = res.outputs[2].node
    /\ query_and_proofs[1].proof # query_and_proofs[2].proof

\* C4: every dependency of a node is the id of a node allocated before it, so
\* it is below nodes.length and the graph has no cycle.
C4_DependenciesAllocated ==
    \A i \in NodeIds(res) : \A e \in Deps(i) :
        e >= 0 /\ e < i /\ e < Len(res.nodes)

\* A returned plan with a node of two dependencies.
C4_Witness ==
    /\ status = "done"
    /\ \E i \in NodeIds(res) : Cardinality(Deps(i)) = 2

\* C5: a step appends at most one node together with its dependency set at the
\* same index, the id handed out is the previous nodes.length, and the nodes
\* allocated before keep index, content and dependencies.
C5_Step ==
    LET n == Len(res.nodes) IN
    /\ Len(res'.nodes) = Len(res'.dependencies)
    /\ runs' = runs =>
          /\ Len(res'.nodes) \in {n, n + 1}
          /\ SubSeq(res'.nodes, 1, n) = res.nodes
          /\ SubSeq(res'.dependencies, 1, n) = res.dependencies
          /\ Len(res'.nodes) = n + 1 =>
                \/ states' # <<>> /\ states'[Len(states')].current_node = n
                \/ /\ res'.outputs # <<>>
                   /\ res'.outputs[Len(res'.outputs)].node = n

C5_AppendOnly == [][C5_Step]_vars

\* A returned plan of at least six nodes.
C5_Witness == status = "done" /\ Len(res.nodes) >= 6

RuleNoBase ==
    /\ AtChild
    /\ child.clause.kind = "Rule"
    /\ ~has_base(curr_state)

\* C6: a Rule node reached without a base whose literal is cached sets
\* current_node to the cached id and appends nothing; otherwise its children
\* are built as a separate image tagged with the literal, whose node is
\* cached; a literal is built once (S2: exactly one From node).
C6_Step ==
    /\ (RuleNoBase /\ substituted_lit \in DOMAIN image_literals) =>
          /\ res' = res
          /\ image_literals' = image_literals
          /\ Len(stack') = Len(stack)
          /\ states' = WithState(set_node(curr_state, image_literals[substituted_lit]))
    /\ (RuleNoBase /\ substituted_lit \notin DOMAIN image_literals) =>
          /\ res' = res
          /\ image_literals' = image_literals
          /\ stack'[Len(stack')] =
                Frame(child.children, "rule", substituted_lit,
                      SomeTag(LiteralToString(substituted_lit)))
          /\ states' = Append(states, State_new)
          /\ \A k \in DOMAIN stack :
                stack[k].ret = "rule" => stack[k].lit # substituted_lit
          /\ \A n \in NodeIds(res) :
                ~(IsModusLabel(Node(n))
                    /\ Node(n).value = LiteralToString(substituted_lit))
    /\ (AtEnd /\ top.ret = "rule" /\ curr_state.current_node # NoNode) =>
          /\ res'.nodes = Append(res.nodes,
                                 [kind |-> "SetLabel",
                                  parent |-> curr_state.current_node,
                                  label |-> MODUS_LABEL,
                                  value |-> LiteralToString(top.lit)])
          /\ top.lit \in DOMAIN image_literals'
          /\ image_literals'[top.lit] = Len(res.nodes)
          /\ states'[Len(states')].current_node = Len(res.nodes)
    /\ (AtEnd /\ top.ret = "rule" /\ curr_state.current_node = NoNode) =>
          /\ res' = res
          /\ image_literals' = image_literals
    /\ runs' = runs => DOMAIN image_literals \subseteq DOMAIN image_literals'
    /\ (/\ status' = "done"
        /\ \A k \in DOMAIN query_and_proofs :
              query_and_proofs[k].query.predicate \in {"a", "b"}) =>
          Cardinality({n \in 1..Len(res'.nodes) : res'.nodes[n].kind = "From"}) = 1

C6_ImageLiteralSharing == [][C6_Step]_vars

\* b is planned after a: the Rule node of a in the proof of b is a hit.
C6_Witness ==
    /\ status = "done"
    /\ Len(query_and_proofs) = 2
    /\ query_and_proofs[1].query = Query("a", <<>>)
    /\ query_and_proofs[2].query = Query("b", <<>>)
    /\ Len(res.nodes) = 7

ImageRef(n) == IF n.kind = "FromScratch" THEN "scratch" ELSE n.image_ref

\* C7: the plan has at most one From / FromScratch node per image reference.
C7_FromShared ==
    \A i, j \in NodeIds(res) :
        (/\ Node(i).kind \in {"From", "FromScratch"}
         /\ Node(j).kind \in {"From", "FromScratch"}
         /\ ImageRef(Node(i)) = ImageRef(Node(j))) => i = j

\* C8: two runs on the same input return the same nodes, the same
\* dependencies in the same stored order and the same outputs, hence the same
\* topological order.
C8_Deterministic ==
    (status = "done" /\ runs = 2) =>
        /\ res.nodes = first_plan.nodes
        /\ res.dependencies = first_plan.dependencies
        /\ res.outputs = first_plan.outputs
        /\ topological_order(res) = topological_order(first_plan)

ImageFrames(stk, k) == Cardinality({j \in 1..k : stk[j].ret \in ImageRets})

\* A set_* operator whose begin marker was reached with a base is active.
SetAfterBase(stk, sts) ==
    \E k \in DOMAIN stk :
        /\ stk[k].ret = "set"
        /\ has_base(sts[ImageFrames(stk, k) - 1])

\* C9: from, or a set_* operator, reached inside a merge or after a base makes
\* planning fail, and a failed planning returns no plan.
C9_Step ==
    /\ (/\ IsIntrinsicChild
        /\ intrinsic.predicate = "from"
        /\ (curr_state.current_merge.some \/ has_base(curr_state))) =>
          status' = "panicked"
    /\ (IsOperatorChild(SetOperators) /\ curr_state.current_merge.some) =>
          status' = "panicked"
    /\ (IsOperatorChild(SetOperators) /\ has_base(curr_state)) =>
          (status' = "panicked" \/ SetAfterBase(stack', states'))
    /\ SetAfterBase(stack, states) =>
          (status' = "panicked" \/ SetAfterBase(stack', states'))
    /\ status = "panicked" => status' = "panicked"

C9_NewImageNeedsNoBase == [][C9_Step]_vars

\* The image of a set_* operator was built and the caller has a base.
C9_Witness ==
    /\ status = "panicked"
    /\ stack # <<>>
    /\ top.ret = "set"
    /\ top.i > Len(top.children)
    /\ has_base(caller_state)

RunOutsideMerge ==
    /\ IsIntrinsicChild
    /\ intrinsic.predicate = "run"
    /\ ~curr_state.current_merge.some

\* C10: a run outside a merge fails without a base; otherwise it appends one
\* Run node whose parent and only dependency is current_node, with the cwd
\* and the env overlay of the state, and current_node becomes its id.
C10_Step ==
    /\ (RunOutsideMerge /\ curr_state.current_node = NoNode) =>
          status' = "panicked" /\ res' = res
    /\ (RunOutsideMerge /\ curr_state.current_node # NoNode) =>
          /\ res'.nodes =
                Append(res.nodes,
                       [kind |-> "Run", parent |-> curr_state.current_node,
                        command |-> as_constant(intrinsic.args[1]),
                        cwd |-> curr_state.cwd,
                        additional_envs |-> curr_state.additional_envs])
          /\ res'.dependencies = Append(res.dependencies, <<curr_state.current_node>>)
          /\ res'.outputs = res.outputs
          /\ states' = WithState([curr_state EXCEPT !.current_node = Len(res.nodes)])
          /\ status' = "running"

C10_RunAppendsNode == [][C10_Step]_vars

\* A Run node allocated inside in_env and in_workdir regions, on a Run node.
C10_Witness ==
    /\ status = "done"
    /\ \E n \in NodeIds(res) :
          /\ Node(n).kind = "Run"
          /\ Node(n).cwd = "d"
          /\ Node(n).additional_envs = ("K" :> "v")
          /\ \E m \in NodeIds(res) : Node(m).kind = "Run" /\ Node(m).parent = n

MergeBegin == IsOperatorChild({"merge"}) /\ end_index # 0

InMerge == Running /\ curr_state.current_merge.some

\* The operations of the Merge nodes of the plan.
MergeOperations(plan) ==
    {plan.nodes[n].operations :
        n \in {k \in DOMAIN plan.nodes : plan.nodes[k].kind = "Merge"}}

\* C11: an outermost merge with a base collects the run, local-copy and
\* image-copy operations of its region in proof order, nested merges included,
\* appends no Run / Copy node for them, keeps current_node until the region
\* ends and then appends one Merge node on the parent current_node had at the
\* begin marker; a merge without a base fails.
C11_Step ==
    /\ (MergeBegin /\ ~has_base(curr_state)) =>
          status' = "panicked" /\ res' = res
    /\ (MergeBegin /\ ~curr_state.current_merge.some /\ has_base(curr_state)) =>
          /\ res' = res
          /\ states' = WithState([curr_state EXCEPT !.current_merge =
                           [some |-> TRUE, parent |-> curr_state.current_node,
                            operations |-> <<>>]])
          /\ stack'[Len(stack')].ret = "merge"
    /\ (MergeBegin /\ curr_state.current_merge.some) =>
          /\ res' = res
          /\ states' = states
          /\ stack'[Len(stack')].ret # "merge"
    /\ (InMerge /\ IsIntrinsicChild /\ intrinsic.predicate = "run") =>
          /\ res' = res
          /\ states' = WithState([curr_state EXCEPT !.current_merge.operations =
                           Append(@, [kind |-> "Run",
                                      command |-> as_constant(intrinsic.args[1]),
                                      cwd |-> curr_state.cwd,
                                      additional_envs |-> curr_state.additional_envs])])
    /\ (/\ InMerge /\ IsIntrinsicChild /\ intrinsic.predicate = "copy"
        /\ status' = "running") =>
          /\ res' = res
          /\ states' = WithState([curr_state EXCEPT !.current_merge.operations =
                           Append(@, [kind |-> "CopyFromLocal",
                                      src_path |-> as_constant(intrinsic.args[1]),
                                      dst_path |-> join_path(curr_state.cwd,
                                                     as_constant(intrinsic.args[2]))])])
    /\ (/\ AtEnd /\ top.ret = "copy" /\ curr_state.current_node # NoNode
        /\ caller_state.current_merge.some) =>
          /\ res' = res
          /\ states' = PoppedStates([caller_state EXCEPT !.current_merge.operations =
                           Append(@, [kind |-> "CopyFromImage",
                                      src_image |-> curr_state.current_node,
                                      src_path |-> as_constant(top.lit.args[2]),
                                      dst_path |-> join_path(caller_state.cwd,
                                                     as_constant(top.lit.args[3]))])])
    /\ (InMerge /\ ~(AtEnd /\ top.ret = "merge") /\ Len(states') = Len(states)) =>
          /\ res' = res
          /\ states'[Len(states')].current_node = curr_state.current_node
    /\ (AtEnd /\ top.ret = "merge") =>
          LET merge_node == curr_state.current_merge IN
          /\ merge_node.some
          /\ merge_node.parent = curr_state.current_node
          /\ res'.nodes = Append(res.nodes,
                                 [kind |-> "Merge", parent |-> merge_node.parent,
                                  operations |-> merge_node.operations])
          /\ Range(res'.dependencies[Len(res'.dependencies)]) =
                {merge_node.parent}
                \cup {merge_node.operations[k].src_image :
                        k \in {j \in DOMAIN merge_node.operations :
                                  merge_node.operations[j].kind = "CopyFromImage"}}
          /\ states' = WithState([curr_state EXCEPT
                                    !.current_merge = NoMerge,
                                    !.current_node = Len(res.nodes)])
    /\ (status' = "done" /\ SingleQuery("m")) =>
          MergeOperations(res') =
             {<<[kind |-> "Run", command |-> "a", cwd |-> "",
                 additional_envs |-> EmptyMap],
                [kind |-> "Run", command |-> "b", cwd |-> "",
                 additional_envs |-> EmptyMap],
                [kind |-> "CopyFromLocal", src_path |-> "./f", dst_path |-> "/g"]>>}

C11_MergeCollects == [][C11_Step]_vars

\* The Merge node of mc: a run, an image copy and the run of the nested merge.
C11_Witness ==
    /\ status = "done"
    /\ \E ops \in MergeOperations(res) :
          /\ Len(ops) = 3
          /\ ops[1].kind = "Run"
          /\ ops[2].kind = "CopyFromImage"
          /\ ops[3].kind = "Run"

\* The cwd the in_workdir regions open in frames 1..k of stk give to the
\* state of the innermost image: the paths joined from the outermost one on.
RECURSIVE ScopedCwd(_, _)
ScopedCwd(stk, k) ==
    IF k = 0 \/ stk[k].ret \in ImageRets THEN ""
    ELSE IF stk[k].ret = "in_workdir"
         THEN join_path(ScopedCwd(stk, k - 1), as_constant(stk[k].lit.args[2]))
    ELSE ScopedCwd(stk, k - 1)

RunCwds(plan) ==
    [k \in 1..Len(plan.nodes) |->
        IF plan.nodes[k].kind = "Run" THEN plan.nodes[k].cwd
        ELSE IF plan.nodes[k].kind = "CopyFromLocal" THEN plan.nodes[k].dst_path
        ELSE "-"]

\* C12: inside in_workdir(p) every run, copy and nested in_workdir sees
\* cwd = join(cwd before, p), an absolute p replacing the base and relative
\* ones accumulating; after the end marker cwd is what it was before the
\* begin marker (S5: Run cwd "/tmp", CopyFromLocal dst "/tmp/out").
C12_Step ==
    /\ (IsOperatorChild({"in_workdir"}) /\ end_index # 0) =>
          /\ res' = res
          /\ states' = WithState([curr_state EXCEPT !.cwd =
                           join_path(curr_state.cwd, as_constant(begin_lit.args[2]))])
    /\ (AtEnd /\ top.ret = "in_workdir") =>
          /\ res' = res
          /\ states' = WithState([curr_state EXCEPT !.cwd = ScopedCwd(Popped, Len(Popped))])
    /\ (status' = "running" /\ stack' # <<>>) =>
          states'[Len(states')].cwd = ScopedCwd(stack', Len(stack'))
    /\ (/\ IsIntrinsicChild /\ intrinsic.predicate = "run"
        /\ Len(res'.nodes) = Len(res.nodes) + 1) =>
          res'.nodes[Len(res'.nodes)].cwd = ScopedCwd(stack, Len(stack))
    /\ (/\ IsIntrinsicChild /\ intrinsic.predicate = "copy"
        /\ Len(res'.nodes) = Len(res.nodes) + 1) =>
          res'.nodes[Len(res'.nodes)].dst_path =
             join_path(ScopedCwd(stack, Len(stack)), as_constant(intrinsic.args[2]))
    /\ (status' = "done" /\ SingleQuery("w")) =>
          /\ res'.nodes[2] = [kind |-> "Run", parent |-> 0, command |-> "ls",
                              cwd |-> "/tmp", additional_envs |-> EmptyMap]
          /\ res'.nodes[3] = [kind |-> "CopyFromLocal", parent |-> 1,
                              src_path |-> ".", dst_path |-> "/tmp/out"]
    /\ (status' = "done" /\ SingleQuery("nw")) =>
          RunCwds(res') = <<"-", "d", "d/e/g", "/abs", "-", "d", "", "-", "-">>

C12_InWorkdirScope == [][C12_Step]_vars

\* nw is planned: nested relative and absolute in_workdir regions were left.
C12_Witness ==
    /\ status = "done"
    /\ SingleQuery("nw")
    /\ \E n \in NodeIds(res) : Node(n).kind = "Run" /\ Node(n).cwd = "/abs"

\* The overlay the in_env regions open in frames 1..k of stk give to the
\* state of the innermost image, an inner pair replacing an outer one.
RECURSIVE ScopedEnvs(_, _)
ScopedEnvs(stk, k) ==
    IF k = 0 \/ stk[k].ret \in ImageRets THEN EmptyMap
    ELSE IF stk[k].ret = "in_env"
         THEN LET outer == ScopedEnvs(stk, k - 1)
                  env_k == as_constant(stk[k].lit.args[2])
                  env_v == as_constant(stk[k].lit.args[3])
              IN [x \in DOMAIN outer \cup {env_k} |->
                     IF x = env_k THEN env_v ELSE outer[x]]
    ELSE ScopedEnvs(stk, k - 1)

RunEnvs(nodes) ==
    [k \in 1..Len(nodes) |->
        IF nodes[k].kind = "Run" THEN nodes[k].additional_envs ELSE EmptyMap]

\* C13: inside in_env(k, v) every Run node and every merge Run operation
\* carries the outer overlay extended with k -> v, an inner region shadowing
\* an outer one on the same key; after the end marker the overlay is the one
\* before the begin marker, the outer value of a shadowed key included.
C13_Step ==
    /\ (IsOperatorChild({"in_env"}) /\ end_index # 0) =>
          /\ res' = res
          /\ LET env_k == as_constant(begin_lit.args[2])
                 env_v == as_constant(begin_lit.args[3])
                 outer == curr_state.additional_envs
             IN states' = WithState([curr_state EXCEPT !.additional_envs =
                              [x \in DOMAIN outer \cup {env_k} |->
                                  IF x = env_k THEN env_v ELSE outer[x]]])
    /\ (AtEnd /\ top.ret = "in_env") =>
          /\ res' = res
          /\ states' = WithState([curr_state EXCEPT !.additional_envs =
                                     ScopedEnvs(Popped, Len(Popped))])
    /\ (status' = "running" /\ stack' # <<>>) =>
          states'[Len(states')].additional_envs = ScopedEnvs(stack', Len(stack'))
    /\ (/\ IsIntrinsicChild /\ intrinsic.predicate = "run"
        /\ Len(res'.nodes) = Len(res.nodes) + 1) =>
          res'.nodes[Len(res'.nodes)].additional_envs = ScopedEnvs(stack, Len(stack))
    /\ (/\ InMerge /\ IsIntrinsicChild /\ intrinsic.predicate = "run") =>
          LET ops == states'[Len(states')].current_merge.operations IN
          /\ Len(ops) = Len(curr_state.current_merge.operations) + 1
          /\ ops[Len(ops)].additional_envs = ScopedEnvs(stack, Len(stack))
    /\ (status' = "done" /\ SingleQuery("e")) =>
          RunEnvs(res'.nodes) =
             <<EmptyMap, "K" :> "v", "K" :> "w", EmptyMap, EmptyMap, EmptyMap>>
    /\ (status' = "done" /\ SingleQuery("nw")) =>
          \A ops \in MergeOperations(res') :
              RunEnvs(ops) = <<"K" :> "v", "K" :> "w", "K" :> "v">>

C13_InEnvScope == [][C13_Step]_vars

\* The walk is back in the outer in_env("K", "v") region of nw after the inner
\* in_env("K", "w") region has ended, inside the merge.
C13_Witness ==
    /\ status = "running"
    /\ stack # <<>>
    /\ top.ret = "in_env"
    /\ curr_state.additional_envs = ("K" :> "v")
    /\ curr_state.current_merge.some
    /\ Len(curr_state.current_merge.operations) = 2
    /\ curr_state.current_merge.operations[2].additional_envs = ("K" :> "w")

\* C14: with_new_cwd, with_additional_envs and with_new_merge restore the
\* prior cwd, additional_envs and current_merge on every exit path of the
\* scoped body, so after a failed walk no walker state is left with the cwd,
\* the overlay or the merge of a region.
C14_RestoredOnFailure ==
    status = "panicked" =>
        \A k \in DOMAIN states :
            /\ states[k].cwd = ""
            /\ states[k].additional_envs = EmptyMap
            /\ states[k].current_merge = NoMerge

\* The builtins of the name of lit ...
Named(lit) == {k \in DOMAIN Builtins : Builtins[k].name = lit.predicate}

\* ... and those of them whose must-be-ground positions all hold a Constant.
ModeFits(lit) ==
    {k \in Named(lit) :
        \A i \in DOMAIN lit.args :
            (i \in DOMAIN Builtins[k].arg_groundness
                /\ ~Builtins[k].arg_groundness[i]) => lit.args[i].tag = "Constant"}

\* C15: select_builtin returns Match with the first builtin in table order of
\* the name of lit whose must-be-ground positions all hold a Constant,
\* GroundnessMismatch when builtins of that name exist but none fits, NoMatch
\* when no builtin has that name.
C15_SelectBuiltin ==
    (call.fn = "select_builtin" /\ ret.returned) =>
        LET lit == call.lit IN
        /\ ModeFits(lit) # {} =>
              /\ ret.value.result = "Match"
              /\ ret.value.builtin \in ModeFits(lit)
              /\ \A k \in ModeFits(lit) : ret.value.builtin <= k
        /\ (Named(lit) # {} /\ ModeFits(lit) = {}) =>
              ret.value = [result |-> "GroundnessMismatch", builtin |-> NoBuiltin]
        /\ Named(lit) = {} =>
              ret.value = [result |-> "NoMatch", builtin |-> NoBuiltin]

\* string_concat(X, "a", "a"): the first mode does not fit, the second does.
C15_Witness ==
    /\ call.fn = "select_builtin"
    /\ ret.returned
    /\ call.lit.predicate = "string_concat"
    /\ call.lit.args = <<UserVariable("X"), Constant("a"), Constant("a")>>
    /\ ret.value = [result |-> "Match", builtin |-> 2]

\* Application of a substitution to a term without compound parts, and to
\* the arguments of a literal.
Apply(s, t) == IF t.tag = "UserVariable" /\ t.val \in DOMAIN s THEN s[t.val] ELSE t
ApplyLiteral(s, l) == [i \in DOMAIN l.args |-> Apply(s, l.args[i])]

HasCompound(l) == \E i \in DOMAIN l.args : l.args[i].tag = "List"

UnifyReturned ==
    /\ call.fn = "unify"
    /\ ret.returned

\* C16: a substitution returned by unify(l, m) unifies the two literals and is
\* idempotent: s(l) = s(m) and s(s(l)) = s(l).
C16_UnifierIdempotent ==
    (UnifyReturned /\ ret.value.kind = "Some") =>
        LET s == ret.value.s
            l == call.self
            m == call.other
        IN /\ ApplyLiteral(s, l) = ApplyLiteral(s, m)
           /\ substitute_literal(l, s) = substitute_literal(m, s)
           /\ substitute_literal(substitute_literal(l, s), s) = substitute_literal(l, s)
           /\ \A v \in DOMAIN s : Apply(s, s[v]) = s[v]

\* p(X, Y, X) and p(Y, a, Y): a repeated variable on both sides.
C16_Witness ==
    /\ UnifyReturned
    /\ call.self.args = <<Variable("X"), Variable("Y"), Variable("X")>>
    /\ call.other.args = <<Variable("Y"), Constant("a"), Variable("Y")>>
    /\ ret.value = Some(("X" :> Constant("a")) @@ ("Y" :> Constant("a")))

\* The substitutions of every variable by a constant or a variable.
Thetas == [VariableNames -> SimpleTerms]

Unifiers(l, m) == {th \in Thetas : ApplyLiteral(th, l) = ApplyLiteral(th, m)}

Unifiable(l, m) ==
    /\ l.predicate = m.predicate
    /\ Len(l.args) = Len(m.args)
    /\ Unifiers(l, m) # {}

C18_CompoundUnify ==
    UnifyReturned =>
        /\ ret.value.kind \in {"Some", "None"}
        /\ call.self = call.other => ret.value.kind = "Some"

RECURSIVE Expansion(_, _)
Expansion(e, neg) ==
    IF e.kind = "Literal"
    THEN <<<<[e.lit EXCEPT !.positive = (e.lit.positive # neg)]>>>>
    ELSE LET inner == (neg # ~e.positive)
             l == Expansion(e.expr1, inner)
             r == Expansion(e.expr2, inner)
         IN IF (e.kind = "And") # inner
            THEN [k \in 1..(Len(l) * Len(r)) |->
                     l[((k - 1) \div Len(r)) + 1] \o r[((k - 1) % Len(r)) + 1]]
            ELSE l \o r

Lowered(head, e) == from_modus_clause(ModusClause(head, e), 0, 0).clauses

LeafPredicates == {"a", "c"}

\* A body without operators: conjunctions and disjunctions of Leaves.
RECURSIVE PlainBody(_)
PlainBody(e) ==
    IF e.kind = "Literal" THEN e \in Leaves
    ELSE IF e.kind \in {"And", "Or"} THEN PlainBody(e.expr1) /\ PlainBody(e.expr2)
    ELSE FALSE

\* C20: lowering a body gives its disjunctive expansion from left to right: a
\* positive And the bodies body(c1) ++ body(c2) for every pair of clauses of
\* its operands, a positive Or the clauses of the left operand and then those
\* of the right, a negated And / Or the lowering of the Or / And of its
\* negated operands, so that only literals are ever negated.
C20_DisjunctiveExpansion ==
    (call.fn = "from" /\ ret.returned /\ PlainBody(call.modus_clause.body)) =>
        LET head == call.modus_clause.head
            e == call.modus_clause.body
            clauses == ret.value.clauses
        IN /\ [k \in DOMAIN clauses |-> clauses[k].body] = Expansion(e, FALSE)
           /\ \A k \in DOMAIN clauses :
                 /\ clauses[k].head = head
                 /\ \A i \in DOMAIN clauses[k].body :
                       clauses[k].body[i].predicate \in LeafPredicates
           /\ (e.kind = "And" /\ e.positive) =>
                 LET c1 == Lowered(head, e.expr1)
                     c2 == Lowered(head, e.expr2)
                 IN /\ Len(clauses) = Len(c1) * Len(c2)
                    /\ \A i \in DOMAIN c1 : \A j \in DOMAIN c2 :
                          clauses[(i - 1) * Len(c2) + j] =
                             Clause(head, c1[i].body \o c2[j].body)
           /\ (e.kind = "Or" /\ e.positive) =>
                 clauses = Lowered(head, e.expr1) \o Lowered(head, e.expr2)
           /\ (e.kind = "And" /\ ~e.positive) =>
                 clauses = Lowered(head, Or(TRUE, negate_current(e.expr1),
                                            negate_current(e.expr2)))
           /\ (e.kind = "Or" /\ ~e.positive) =>
                 clauses = Lowered(head, And(TRUE, negate_current(e.expr1),
                                             negate_current(e.expr2)))

\* foo :- !((a, !c(X)) ; (!c(X), a)) is lowered to the four clauses with the
\* bodies !a, c(X) / !a, !a / c(X), c(X) / c(X), !a.
C20_Witness ==
    LET a == Literal("a", <<>>, 0)
        c == Literal("c", <<UserVariable("X")>>, 0)
        foo == Literal("foo", <<>>, 0)
    IN /\ call.fn = "from"
       /\ ret.returned
       /\ call.modus_clause.body =
             Or(FALSE,
                And(TRUE, LiteralExpr(a), LiteralExpr(negated(c))),
                And(TRUE, LiteralExpr(negated(c)), LiteralExpr(a)))
       /\ ret.value.clauses =
             <<Clause(foo, <<negated(a), c>>), Clause(foo, <<negated(a), negated(a)>>),
               Clause(foo, <<c, c>>), Clause(foo, <<c, negated(a)>>)>>

(* ------------------------------ C21 ------------------------------------ *)
TranslateReturned == call.fn = "from" /\ ret.returned

IsOperatorEnd(name) ==
    /\ starts_with(name, "_operator_")
    /\ ends_with(SubSeq(name, 11, Len(name)), "_end")

\* The markers of body are nested like brackets: every end closes the
\* innermost open begin, of the same operator and with the same arguments.
RECURSIVE Nested(_, _)
Nested(body, open) ==
    IF body = <<>> THEN open = <<>>
    ELSE LET l == Head(body) IN
         IF IsOperatorBegin(l.predicate) THEN Nested(Tail(body), Append(open, l))
         ELSE IF IsOperatorEnd(l.predicate)
         THEN /\ open # <<>>
              /\ l.predicate = "_operator_" \o OpName(open[Len(open)].predicate) \o "_end"
              /\ l.args = open[Len(open)].args
              /\ Nested(Tail(body), SubSeq(open, 1, Len(open) - 1))
         ELSE Nested(Tail(body), open)

\* C21: lowering OperatorApplication(inner, op) gives one clause per clause c
\* lowered from inner, with the head of c and the body
\* [_operator_<op>_begin(id, args)] ++ c.body ++ [_operator_<op>_end(id, args)],
\* both markers with the same pair-id and the same translated arguments,
\* preceded only by the string_concat literals of the operator's format
\* string arguments; and in every lowered clause body the markers are
\* properly nested, each begin before its end.
C21_OperatorApplication ==
    TranslateReturned =>
       LET head == call.modus_clause.head
           body == call.modus_clause.body
           out == ret.value.clauses
       IN
       /\ \A k \in DOMAIN out : Nested(out[k].body, <<>>)
       /\ body.kind = "OperatorApplication" =>
            LET op == body.op
                inner == from_modus_clause(ModusClause(head, body.expr), 0, 0).clauses
                formats == {j \in DOMAIN op.args : op.args[j].tag = "FormatString"}
            IN
            /\ Len(out) = Len(inner)
            /\ \A k \in DOMAIN out :
                 LET b == out[k].body
                     n == Len(b) - Len(inner[k].body) - 2
                 IN
                 /\ out[k].head = inner[k].head
                 /\ n >= 0
                 /\ formats = {} => n = 0
                 /\ \A p \in 1..n : b[p].predicate = "string_concat"
                 /\ SubSeq(b, n + 2, Len(b) - 1) = inner[k].body
                 /\ LET begin == b[n + 1]
                        end == b[Len(b)]
                    IN
                    /\ begin.predicate = "_operator_" \o op.predicate \o "_begin"
                    /\ end.predicate = "_operator_" \o op.predicate \o "_end"
                    /\ begin.positive /\ end.positive
                    /\ begin.args = end.args
                    /\ Len(begin.args) = Len(op.args) + 1
                    /\ begin.args[1].tag = "Constant"
                    /\ \A j \in DOMAIN op.args :
                         LET t == begin.args[j + 1] IN
                         IF op.args[j].tag = "FormatString"
                         THEN /\ t.tag = "AuxiliaryVariable"
                              /\ \E p \in 1..n : b[p].args[3] = t
                         ELSE IF op.args[j].tag = "UserVariable" THEN t = op.args[j]
                         ELSE t.tag = "Constant"

\* An operator with a format string argument over a disjunction: two clauses,
\* each with its string_concat literals in front of its begin marker.
C21_Witness ==
    /\ TranslateReturned
    /\ call.modus_clause.body.kind = "OperatorApplication"
    /\ call.modus_clause.body.expr.kind = "Or"
    /\ \E j \in DOMAIN call.modus_clause.body.op.args :
          call.modus_clause.body.op.args[j].tag = "FormatString"
    /\ Len(ret.value.clauses) = 2
    /\ \A k \in 1..2 :
          /\ ret.value.clauses[k].body[1].predicate = "string_concat"
          /\ IsOperatorEnd(ret.value.clauses[k].body[Len(ret.value.clauses[k].body)].predicate)

(* ------------------------------ C22 ------------------------------------ *)
\* The begin markers of the lowered clauses, as <<clause, position in body>>.
BeginMarkers(clauses) ==
    {m \in UNION {{<<k, p>> : p \in DOMAIN clauses[k].body} : k \in DOMAIN clauses} :
        IsOperatorBegin(clauses[m[1]].body[m[2]].predicate)}

PairId(clauses, m) == clauses[m[1]].body[m[2]].args[1]

\* C22: after lowering a clause no two _operator_*_begin markers of the
\* resulting clauses, in the same clause or in different clauses, carry the
\* same pair-id.
C22_PairIdsUnique ==
    TranslateReturned =>
       \A m1, m2 \in BeginMarkers(ret.value.clauses) :
          m1 # m2 => PairId(ret.value.clauses, m1) # PairId(ret.value.clauses, m2)

(* ------------------------------ C23 ------------------------------------ *)
VariableIndexes == {"rename", "aux"}

SameCounter(h1, h2) == (h1.by \in VariableIndexes) = (h2.by \in VariableIndexes)

\* A step that is a fetch_add of some thread on one of the two counters.
FetchStep == Len(handed') = Len(handed) + 1

ResetStep ==
    \/ AVAILABLE_VARIABLE_INDEX' = 0 /\ AVAILABLE_VARIABLE_INDEX # 0
    \/ OPERATOR_PAIR_ID' = 0 /\ OPERATOR_PAIR_ID # 0

\* C23: under any interleaving of the callers, the values a counter hands
\* out (to rename and aux, or as pair-ids) are pairwise distinct, and a
\* counter never decreases except through the reset of the tests.
C23_Step ==
    /\ FetchStep =>
          LET new == handed'[Len(handed')] IN
          /\ \A k \in DOMAIN handed :
                SameCounter(handed[k], new) => handed[k].value < new.value
          /\ new.value < (IF new.by \in VariableIndexes
                          THEN AVAILABLE_VARIABLE_INDEX' ELSE OPERATOR_PAIR_ID')
    /\ ~ResetStep =>
          /\ AVAILABLE_VARIABLE_INDEX' >= AVAILABLE_VARIABLE_INDEX
          /\ OPERATOR_PAIR_ID' >= OPERATOR_PAIR_ID

C23_CountersAtomic == [][C23_Step]_vars

\* Two threads took turns on both counters.
C23_Witness ==
    /\ Len(handed) = 3
    /\ handed[1].thread # handed[2].thread
    /\ handed[1].by = "rename" /\ handed[2].by = "aux" /\ handed[3].by = "operator"
    /\ handed[1].value = 0 /\ handed[2].value = 1 /\ handed[3].value = 0

(* ------------------------------ C24 ------------------------------------ *)
\* The value given to the variable v of a format string.
ValueOf(v) == "<" \o v \o ">"

\* The escapes of a format string are those the language has.
RECURSIVE EscapesKnown(_, _)
EscapesKnown(s, i) ==
    IF i > Len(s) THEN TRUE
    ELSE IF Char(s, i) # "\\" THEN EscapesKnown(s, i + 1)
    ELSE /\ i < Len(s)
         /\ Char(s, i + 1) \in {"n", "t", "r", "0", "\"", "\\", "$"}
         /\ EscapesKnown(s, i + 2)

\* The string a format string stands for: ${v} is the value of v, an escape
\* is the character it names, every other character is itself.
RECURSIVE Interpolated(_, _)
Interpolated(s, i) ==
    IF i > Len(s) THEN ""
    ELSE IF Char(s, i) = "\\"
    THEN LET c == Char(s, i + 1) IN
         (IF c = "n" THEN "\n" ELSE IF c = "t" THEN "\t" ELSE IF c = "r" THEN "\r"
          ELSE IF c = "0" THEN "<NUL>" ELSE c) \o Interpolated(s, i + 2)
    ELSE LET rest == SubSeq(s, i, Len(s))
             n == IF starts_with(rest, "${") THEN identifier_end(rest, 3) - 3 ELSE 0
         IN IF /\ n > 0
               /\ Char(rest, 3) \in Alpha \cup {"_"}
               /\ Len(rest) >= n + 3
               /\ Char(rest, n + 3) = "}"
            THEN ValueOf(SubSeq(rest, 3, n + 2)) \o Interpolated(s, i + n + 3)
            ELSE Char(s, i) \o Interpolated(s, i + 1)

\* The string the chain binds its last auxiliary variable to when it is
\* resolved left to right: string_concat(a, b, c) binds c to a ++ b.
RECURSIVE Resolved(_, _, _)
Resolved(chain, k, bound) ==
    IF k > Len(chain) THEN bound
    ELSE LET b == chain[k].args[2]
         IN Resolved(chain, k + 1,
                     bound \o (IF b.tag = "Constant" THEN b.val ELSE ValueOf(b.val)))

ConvertReturned == call.fn = "convert_format_string" /\ ret.returned

\* C24: the string_concat literals of a format string form a chain that
\* starts with string_concat("", "", A0), each literal takes the output of
\* the one before as its first argument and a fresh auxiliary variable as its
\* third, and resolving the chain binds the auxiliary variable that replaces
\* the format string to the string with every ${v} replaced by the value of
\* v and the escapes processed.
C24_FormatStringChain ==
    (ConvertReturned /\ EscapesKnown(call.format_string_content, 1)) =>
       LET chain == ret.value.literals IN
       /\ chain # <<>>
       /\ chain[1].args = <<Constant(""), Constant(""), AuxiliaryVariable(0)>>
       /\ \A k \in DOMAIN chain :
             /\ chain[k].predicate = "string_concat"
             /\ chain[k].args[3] = AuxiliaryVariable(k - 1)
             /\ k > 1 => chain[k].args[1] = chain[k - 1].args[3]
       /\ ret.value.term = chain[Len(chain)].args[3]
       /\ Resolved(chain, 1, "") = Interpolated(call.format_string_content, 1)

(* ------------------------------ C25 ------------------------------------ *)
RECURSIVE HasOperator(_)
HasOperator(e) ==
    \/ e.kind = "OperatorApplication"
    \/ e.kind \in {"And", "Or"} /\ (HasOperator(e.expr1) \/ HasOperator(e.expr2))

\* The number of literals of the query whose predicate has the kind.
RECURSIVE KindCount(_, _)
KindCount(e, kind) ==
    IF e.kind = "Literal" THEN (IF pred_kind(e.lit.predicate) = kind THEN 1 ELSE 0)
    ELSE IF e.kind = "OperatorApplication" THEN KindCount(e.expr, kind)
    ELSE KindCount(e.expr1, kind) + KindCount(e.expr2, kind)

Reported(errs, message) ==
    Cardinality({k \in DOMAIN errs : errs[k].message = message})

PlanReturned == call.fn = "plan_from_modusfile" /\ ret.returned

\* C25: plan_from_modusfile rejects a query, before any resolution, when it
\* contains an operator application at any depth, when the number of its
\* literals with an Image predicate is not one, or when one of its literals
\* has a Layer predicate; the diagnostics hold one entry for each of the
\* three checks that is violated, and the query passes when none is.
C25_QueryRejected ==
    PlanReturned =>
       LET q == call.query
           operator == HasOperator(q)
           images == KindCount(q, "Image") # 1
           layers == KindCount(q, "Layer") > 0
           result == ret.value.result
       IN
       IF operator \/ images \/ layers
       THEN /\ result.kind = "Err"
            /\ ~ret.value.resolved
            /\ Reported(result.errs, "Operators in queries are currently unsupported.")
                  = (IF operator THEN 1 ELSE 0)
            /\ Reported(result.errs, "There must be exactly one image predicate in the query")
                  = (IF images THEN 1 ELSE 0)
            /\ Reported(result.errs, "Layer predicates in queries are currently unsupported")
                  = (IF layers THEN 1 ELSE 0)
            /\ Len(result.errs) = (IF operator THEN 1 ELSE 0) + (IF images THEN 1 ELSE 0)
                                   + (IF layers THEN 1 ELSE 0)
       ELSE result.kind = "Ok" /\ ret.value.resolved

\* All three checks fail for a query with two operator applications below a
\* conjunction, and three diagnostics come back.
C25_Witness ==
    /\ PlanReturned
    /\ call.query.kind = "And"
    /\ call.query.expr1.kind = "And"
    /\ call.query.expr1.expr2.kind = "OperatorApplication"
    /\ call.query.expr2.kind = "OperatorApplication"
    /\ ret.value.result.kind = "Err"
    /\ Len(ret.value.result.errs) = 3

(* ------------------------------- C26 ----------------------------------- *)
\* The node ids a node refers to.
Referenced(n) ==
    CASE n.kind \in {"From", "FromScratch"} -> {}
      [] n.kind = "CopyFromImage" -> {n.parent, n.src_image}
      [] n.kind = "Merge" ->
           {n.parent} \cup {n.operations[k].src_image :
                              k \in {j \in DOMAIN n.operations :
                                       n.operations[j].kind = "CopyFromImage"}}
      [] OTHER -> {n.parent}

NoDuplicates(seq) == Cardinality(Range(seq)) = Len(seq)

\* C26: for every node of the plan, dependencies[i] holds exactly the node ids
\* the node refers to, each once: none for From and FromScratch, the parent
\* for Run, CopyFromLocal, Set* and AppendEnvValue, the parent and src_image
\* for CopyFromImage, the parent and the src_image of every CopyFromImage
\* operation for Merge.
C26_DependenciesExact ==
    \A i \in NodeIds(res) :
        /\ Deps(i) = Referenced(Node(i))
        /\ NoDuplicates(res.dependencies[i + 1])

\* A returned plan with a Merge node that copies from an image, and a node
\* whose references name the same node twice.
C26_Witness ==
    /\ status = "done"
    /\ \E i \in NodeIds(res) :
         /\ Node(i).kind = "Merge"
         /\ Cardinality(Referenced(Node(i))) >= 2
    /\ \E i \in NodeIds(res) :
         \/ /\ Node(i).kind = "CopyFromImage"
            /\ Node(i).parent = Node(i).src_image
         \/ /\ Node(i).kind = "Merge"
            /\ \E j, k \in DOMAIN Node(i).operations :
                 /\ j # k
                 /\ Node(i).operations[j].kind = "CopyFromImage"
                 /\ Node(i).operations[k].kind = "CopyFromImage"
                 /\ Node(i).operations[j].src_image = Node(i).operations[k].src_image

(* ------------------------------- C27 ----------------------------------- *)
\* children[j] is the end marker of the region children[i] opens.
ClosesRegion(children, i, j) ==
    /\ children[j].clause.kind = "Builtin"
    /\ children[j].clause.lit.predicate =
         "_operator_" \o OpName(children[i].clause.lit.predicate) \o "_end"
    /\ children[j].clause.lit.args # <<>>
    /\ children[j].clause.lit.args[1] = children[i].clause.lit.args[1]

\* The first later end marker of the same operator and pair-id, 0 if none.
FirstEnd(children, i) ==
    LET later == {j \in (i + 1)..Len(children) : ClosesRegion(children, i, j)}
    IN IF later = {} THEN 0
       ELSE CHOOSE j \in later : \A k \in later : j <= k

IsMarker(name) == starts_with(name, "_operator_")

\* process_operator is entered for the child the loop is at.
OperatorEntered ==
    /\ AtChild
    /\ child.clause.kind = "Builtin"
    /\ IsOperatorBegin(child.clause.lit.predicate)
    /\ Len(stack') = Len(stack) + 1

\* C27: process_children pairs a begin marker with the first later end marker
\* of the same list that has the same operator and pair-id, hands exactly the
\* children strictly between the two to process_operator and resumes after
\* the end marker; an inner region of the same operator with another pair-id
\* does not end the outer one, and the loop is never at an end marker, so no
\* marker reaches process_intrinsic.
C27_Step ==
    /\ OperatorEntered =>
         LET j == FirstEnd(top.children, top.i)
             region == stack'[Len(stack')]
         IN /\ j # 0
            /\ region.children = SubSeq(top.children, top.i + 1, j - 1)
            /\ region.i = 1
            /\ stack'[Len(stack)].i = j + 1
            /\ stack'[Len(stack)].children = top.children
    /\ (AtChild /\ child.clause.kind = "Builtin"
               /\ IsMarker(child.clause.lit.predicate))
         => IsOperatorBegin(child.clause.lit.predicate)
    /\ (IsIntrinsicChild /\ status' = "running")
         => ~IsMarker(child.clause.lit.predicate)

C27_ProcessChildrenPairs == [][C27_Step]_vars

\* The walker is inside a region that holds an end marker of its own
\* operator: a nested region with another pair-id.
C27_Witness ==
    /\ Running
    /\ top.ret \in {"in_workdir", "in_env", "merge"}
    /\ \E k \in DOMAIN top.children :
         /\ top.children[k].clause.kind = "Builtin"
         /\ top.children[k].clause.lit.predicate =
              "_operator_" \o OpName(top.lit.predicate) \o "_end"
         /\ top.children[k].clause.lit.args[1] # top.lit.args[1]
    /\ top.i > Len(top.children)

(* ------------------------------- C28 ----------------------------------- *)
\* The marker names of the operators process_operator handles.
HandledMarkers ==
    {"_operator_" \o op \o suffix : op \in KnownOperators, suffix \in {"_begin", "_end"}}

SelectReturned == call.fn = "select_builtin" /\ ret.returned

\* C28: select_builtin answers Match for the begin and the end marker of every
\* operator process_operator handles, when all arguments of the marker
\* literal are constants.
C28_MarkersRegistered ==
    (/\ SelectReturned
     /\ call.lit.predicate \in HandledMarkers
     /\ \A i \in DOMAIN call.lit.args : call.lit.args[i].tag = "Constant")
       => ret.value.result = "Match"

(* ------------------------------- C29 ----------------------------------- *)
ScanReturned == call.fn = "scan" /\ ret.returned

\* The begin markers among the children of a proof node.
BeginChildren(children) ==
    {i \in DOMAIN children :
        /\ children[i].clause.kind = "Builtin"
        /\ IsOperatorBegin(children[i].clause.lit.predicate)}

\* C29: in the proof of a lowered clause every _operator_X_begin child is
\* followed in the same children list by an _operator_X_end child with the
\* same pair-id, so the scan of process_children for the end marker stops
\* inside the list and never indexes past its end.
C29_EndMarkerFound ==
    ScanReturned =>
       \A k \in DOMAIN ret.value :
          /\ \A i \in BeginChildren(ret.value[k].children) :
                FirstEnd(ret.value[k].children, i) # 0
          /\ ret.value[k].scan = "Ok"

(* ------------------------------- C30 ----------------------------------- *)
\* The walker state of an image that has not begun.
Fresh(st) ==
    /\ st.current_node = NoNode
    /\ st.cwd = ""
    /\ st.additional_envs = EmptyMap
    /\ ~st.current_merge.some

\* The caller of the running process_image is inside a region.
InRegion(st) == st.cwd # "" \/ st.additional_envs # EmptyMap \/ st.current_merge.some

\* The scoped part of a walker state.
Scope(st) == <<st.cwd, st.additional_envs, st.current_merge>>

\* C30: process_image starts from a fresh walker state (no current node, cwd
\* "", empty overlay, no merge) whatever region its caller is in; while it
\* runs the states of its callers are not touched, and when it returns the
\* caller has the cwd, additional_envs and current_merge it had, but for
\* the CopyFromImage operation process_operator then appends to an open merge.
C30_Step ==
    /\ Len(states') = Len(states) + 1 =>
          /\ Fresh(states'[Len(states')])
          /\ SubSeq(states', 1, Len(states)) = states
    /\ (Len(states') = Len(states) /\ Len(states) >= 2) =>
          SubSeq(states', 1, Len(states) - 1) = SubSeq(states, 1, Len(states) - 1)
    /\ (Len(states') = Len(states) - 1 /\ Len(states') >= 1) =>
          LET before == states[Len(states')]
              after == states'[Len(states')]
          IN /\ SubSeq(states', 1, Len(states') - 1) = SubSeq(states, 1, Len(states') - 1)
             /\ after.cwd = before.cwd
             /\ after.additional_envs = before.additional_envs
             /\ \/ after.current_merge = before.current_merge
                \/ /\ top.ret = "copy"
                   /\ before.current_merge.some /\ after.current_merge.some
                   /\ after.current_merge.parent = before.current_merge.parent
                   /\ Len(after.current_merge.operations)
                        = Len(before.current_merge.operations) + 1
                   /\ SubSeq(after.current_merge.operations, 1,
                             Len(before.current_merge.operations))
                        = before.current_merge.operations
                   /\ after.current_merge.operations[
                         Len(after.current_merge.operations)].kind = "CopyFromImage"

C30_FreshImageState == [][C30_Step]_vars

\* An image is being built for a rule literal, a copy or a set_* body while
\* its caller has a cwd and an overlay: it has allocated a node and its own
\* cwd and overlay are empty.
C30_Witness ==
    /\ Running
    /\ Len(states) >= 2
    /\ top.ret \in {"rule", "copy", "set"}
    /\ caller_state.cwd = "/d"
    /\ curr_state.current_node # NoNode
    /\ curr_state.cwd = "" /\ curr_state.additional_envs = EmptyMap
====
